---- MODULE Spec2Model ----
(***************************************************************************)
(* Rating exchange bot: the scheduler (AssignmentService), the exchange    *)
(* and submission repositories and the commands that write to them.        *)
(*                                                                         *)
(* Time is counted in whole hours: the three Duration constants of         *)
(* assignment_service.rs (all 60 * 60 seconds) are 1 unit.                 *)
(***************************************************************************)
EXTENDS Integers, Sequences, FiniteSets, TLC

\* ---------------------------------------------------------------- bounds
MaxTime == 3
MaxExchanges == 2
MaxStartDelay == 1
MaxDuration == 1
MaxUsers == 2
MaxLinks == 2
MaxChannels == 1
MaxPendingEvents == 1
MaxInFlight == 2
MaxVertex == 2
MaxEdges == 2
MaxFlow == 1

\* ------------------------------------------------------ program constants
DEFAULT_SLEEP_DURATION == 1
EXCHANGE_START_THRESHOLD == 1
EXCHANGE_END_THRESHOLD == 1

Channels == 1..MaxChannels
Slugs == {"a", "b"}
Users == 1..MaxUsers
Links == 1..MaxLinks
\* Option<T>: None is the empty set, Some(t) the singleton.
None == {}
Some(t) == {t}

ExchangeState ==
    {"NotStartedYet", "AcceptingSubmissions", "AssignmentsSent", "MissedByBot", "AssignmentError"}

VARIABLES
    now,                    \* OffsetDateTime::now_utc()
    exchanges,              \* table exchanges: id -> row
    next_id,                \* next row id of table exchanges
    submissions,            \* table submissions: set of rows
    exchange_events,        \* ExchangesUpdated events waiting in the scheduler's receiver
    pc,                     \* where the scheduler loop is
    next_assignments_time,  \* the loop's Option<OffsetDateTime>
    sleep_until,            \* end of the tokio::time::sleep of the current select!
    tick_now,               \* `now` read by the running announce_... / perform_assignments
    starting_exchanges,     \* rest of the `for exchange in starting_exchanges`
    ending_exchanges,       \* rest of the `for exchange in ending_exchanges`
    started_in_tick,        \* ids the running tick moved to AcceptingSubmissions
    opening_sent,           \* ids whose opening message was delivered
    opening_failed,         \* ids whose latest opening message could not be sent
    delivered,              \* <<exchange id, user>>: an assignment DM was delivered
    log,                    \* what the last scheduler step attempted and how it went
    main_pc,                \* where main's select! is (ctrl_c branch)
    shutdown_notified,      \* the Notified future of the current select! was woken
    transaction,            \* create_exchange / delete_exchange in progress (Option)
    reply,                  \* how the last /submit or /revoke ended
    in_flight,              \* commands that wait between two of their steps
    played_games,           \* table played_games: set of rows
    games_per_member,       \* Exchange.games_per_member of the exchange being assigned
    network,                \* the FlowNetwork that dinic::solve works on
    visited_last,           \* of two opposite edges, the one the HashSet yields last
    level_graph,            \* solve's level_graph
    reached_sink_once,      \* find_blocking_flow's flag
    solver_pc,              \* where solve is
    residual_graph,         \* solve's residual_graph
    vertex_levels,          \* solve's vertex_levels: vertex -> level
    worklist,               \* solve's worklist: a list of edges
    visited,                \* solve's visited: a set of edges
    path                    \* solve's path: a list of edges

vars == <<now, exchanges, next_id, submissions, exchange_events, pc,
          next_assignments_time, sleep_until, tick_now, starting_exchanges,
          ending_exchanges, started_in_tick, opening_sent, opening_failed, delivered,
          log,
          main_pc, shutdown_notified, transaction, reply, in_flight, played_games,
          games_per_member,
          network, visited_last, level_graph, reached_sink_once, solver_pc,
          residual_graph, vertex_levels, worklist, visited, path>>

bot == <<now, exchanges, next_id, submissions, exchange_events, pc,
         next_assignments_time, sleep_until, tick_now, starting_exchanges,
         ending_exchanges, started_in_tick, opening_sent, opening_failed, delivered,
          log,
         main_pc, shutdown_notified, transaction, reply,
         in_flight>>

\* The locals of solve that the functions it calls clear and fill.
locals == <<residual_graph, vertex_levels, worklist, visited, path>>

solver == <<played_games, games_per_member, network, visited_last, level_graph,
            reached_sink_once, solver_pc, locals>>

process == <<main_pc, shutdown_notified>>
store == <<exchanges, next_id, submissions>>
outbox == <<opening_sent, opening_failed, delivered>>
tick_vars == <<tick_now, starting_exchanges, ending_exchanges, started_in_tick>>

Max(a, b) == IF a >= b THEN a ELSE b

NoLog ==
    [op |-> "none", id |-> 0, late |-> 0, say |-> "none", update |-> "none",
     load |-> "none", dm_to |-> {}, dm_failed |-> {}, dms |-> <<>>,
     read |-> "none", retry |-> FALSE]

Outcome == {"ok", "err"}

\* What a command answers (the reply of Ok, a user error or an internal
\* error), and whether one of its repository calls failed.
Replied(result, failed) == [result |-> result, failed |-> failed]

NoReply == Replied("none", FALSE)

\* db_pool.close(): from the call on every acquire of the pool fails.
PoolClosed == main_pc = "closing_pool"

\* The outcomes of a repository call.
DbOutcome == IF PoolClosed THEN {"err"} ELSE Outcome

\* ------------------------------------------------------------- repository

\* A row as the queries return it (Exchange::from_db).
Row(id) == [id |-> id] @@ exchanges[id]

\* The result vectors of an ORDER BY query: every order of the rows of S that
\* is sorted by the column (rows with equal values come in any order).
OrderedBy(S, column) ==
    {s \in [1..Cardinality(S) -> S] :
        /\ \A i, j \in 1..Cardinality(S) : i # j => s[i] # s[j]
        /\ \A i, j \in 1..Cardinality(S) : i < j => s[i][column] <= s[j][column]}

\* Variant: the state is not part of the WHERE clause.
GetStartingExchanges_AnyState(date) ==
    OrderedBy({Row(id) : id \in {i \in DOMAIN exchanges :
                   exchanges[i].submissions_start <= date}},
              "submissions_start")

\* Variant: the date is not part of the WHERE clause.
GetStartingExchanges_AnyDate(date) ==
    OrderedBy({Row(id) : id \in {i \in DOMAIN exchanges :
                   exchanges[i].state = "NotStartedYet"}},
              "submissions_start")

GetStartingExchanges(date) ==
    OrderedBy({Row(id) : id \in {i \in DOMAIN exchanges :
                   /\ exchanges[i].state = "NotStartedYet"
                   /\ exchanges[i].submissions_start <= date}},
              "submissions_start")

\* Variant: the date is not part of the WHERE clause.
GetEndingExchanges_AnyDate(date) ==
    OrderedBy({Row(id) : id \in {i \in DOMAIN exchanges :
                   exchanges[i].state = "AcceptingSubmissions"}},
              "submissions_end")

GetEndingExchanges(date) ==
    OrderedBy({Row(id) : id \in {i \in DOMAIN exchanges :
                   /\ exchanges[i].state = "AcceptingSubmissions"
                   /\ exchanges[i].submissions_end <= date}},
              "submissions_end")

GetOverlappingExchanges(channel, slug, start, end) ==
    {id \in DOMAIN exchanges :
        \/ /\ exchanges[id].channel = channel
           /\ exchanges[id].submissions_start < end
           /\ exchanges[id].submissions_end > start
        \/ exchanges[id].slug = slug}

\* Variant: the IIF always takes submissions_start.
ClosestDate_StartOnly(id) == exchanges[id].submissions_start

ClosestDate(id) ==
    IF exchanges[id].state = "NotStartedYet"
    THEN exchanges[id].submissions_start
    ELSE exchanges[id].submissions_end

GetClosestExchangeEndOrStartDate ==
    LET live == {id \in DOMAIN exchanges :
                    exchanges[id].state \in {"NotStartedYet", "AcceptingSubmissions"}}
    IN  IF live = {} THEN None
        ELSE Some(CHOOSE d \in {ClosestDate(id) : id \in live} :
                      \A id \in live : d <= ClosestDate(id))

\* UPDATE exchanges SET state = .. WHERE id = ..: no row, no change.
UpdateExchangeState(table, id, state) ==
    IF id \in DOMAIN table
    THEN [table EXCEPT ![id].state = state]
    ELSE table

GetSubmissionsForExchange(id) == {s \in submissions : s.exchange_id = id}

\* The loop head: the sleep of the next select! is computed from the time the
\* loop comes round.
SleepUntil(next, at) ==
    IF next = None
    THEN at + DEFAULT_SLEEP_DURATION
    ELSE Max(at, CHOOSE t \in next : TRUE)

\* FlowNetwork::empty
FlowNetworkEmpty(source, sink) ==
    [source |-> source, sink |-> sink, edges |-> {}, capacities |-> <<>>,
     flows |-> <<>>]

\* solve, its locals as they are created.
EmptyLocals ==
    /\ residual_graph = FlowNetworkEmpty(0, 1)
    /\ vertex_levels = <<>>
    /\ worklist = <<>>
    /\ visited = {}
    /\ path = <<>>

\* No assignment is being computed.
SolverIdle ==
    /\ played_games = {}
    /\ games_per_member = 1
    /\ network = FlowNetworkEmpty(0, 1)
    /\ visited_last = {}
    /\ level_graph = FlowNetworkEmpty(0, 1)
    /\ reached_sink_once = FALSE
    /\ EmptyLocals
    /\ solver_pc = "idle"

\* The state of the bot without the solver.
BotInit ==
    /\ now = 0
    /\ exchanges = <<>>
    /\ next_id = 1
    /\ exchange_events = 0
    /\ pc = "select"
    /\ next_assignments_time = Some(0)
    /\ sleep_until = 0
    /\ tick_now = 0
    /\ starting_exchanges = <<>>
    /\ ending_exchanges = <<>>
    /\ started_in_tick = {}
    /\ opening_sent = {}
    /\ opening_failed = {}
    /\ delivered = {}
    /\ log = NoLog
    /\ main_pc = "running"
    /\ shutdown_notified = FALSE
    /\ transaction = None
    /\ reply = NoReply
    /\ in_flight = {}

Init == BotInit /\ submissions = {} /\ SolverIdle

AdvanceTime ==
    /\ now < MaxTime
    /\ now' = now + 1
    /\ UNCHANGED <<process, transaction, reply, in_flight, solver, store, exchange_events, pc, next_assignments_time, sleep_until,
                   tick_vars, outbox, log>>

\* --------------------------------------------------------------- commands

\* /exchange create: the overlap check, then create_exchange, which sends
\* ExchangesUpdated once its transaction is committed.
CreateExchange(channel, slug, start, duration) ==
    LET end == start + duration
    IN  /\ next_id <= MaxExchanges
        /\ exchange_events < MaxPendingEvents
        /\ GetOverlappingExchanges(channel, slug, start, end) = {}
        /\ exchanges' = (next_id :> [channel |-> channel, slug |-> slug,
                                     state |-> "NotStartedYet",
                                     submissions_start |-> start,
                                     submissions_end |-> end]) @@ exchanges
        /\ next_id' = next_id + 1
        /\ exchange_events' = exchange_events + 1
        /\ UNCHANGED <<process, transaction, reply, in_flight, solver, now, submissions, pc, next_assignments_time, sleep_until,
                       tick_vars, outbox, log>>

\* /exchange delete: delete_exchange removes the rows with the slug, whatever
\* their state, and sends ExchangesUpdated also when no row matched.
\* (opening_failed only keeps track of stored exchanges.)
DeleteExchange(slug) ==
    LET kept == {id \in DOMAIN exchanges : exchanges[id].slug # slug}
    IN  /\ exchange_events < MaxPendingEvents
        /\ exchanges' = [id \in kept |-> exchanges[id]]
        /\ exchange_events' = exchange_events + 1
        /\ opening_failed' = opening_failed \cap kept
        /\ UNCHANGED <<process, transaction, reply, in_flight, solver, now, next_id, submissions, pc, next_assignments_time,
                       sleep_until, tick_vars, opening_sent, delivered, log>>

\* Variant: a plain INSERT, without the ON CONFLICT clause.
AddOrUpdateSubmission_InsertOnly(table, new) == table \cup {new}

\* INSERT .. ON CONFLICT (exchange_id, submitter) DO UPDATE SET link.
AddOrUpdateSubmission(table, new) ==
    {s \in table : ~(s.exchange_id = new.exchange_id /\ s.submitter = new.submitter)}
        \cup {new}

\* get_conflicting_submission: LIMIT 1 returns any one of the matching rows.
GetConflictingSubmission(new) ==
    LET matching == {s \in GetSubmissionsForExchange(new.exchange_id) :
                        s.submitter = new.submitter \/ s.link = new.link}
    IN  IF matching = {} THEN {None} ELSE {Some(s) : s \in matching}

\* The (exchange_id, link) index makes the upsert fail when another row of the
\* exchange holds the link.
UpsertFails(new) ==
    \E s \in GetSubmissionsForExchange(new.exchange_id) :
        s.link = new.link /\ s.submitter # new.submitter

\* /submit: the exchange is looked up with get_overlapping_exchanges at
\* (now, now); a conflicting row with the same link rejects the command.
Submit(user, channel, slug, link) ==
    LET found == GetOverlappingExchanges(channel, slug, now, now)
    IN  /\ Cardinality(found) = 1
        /\ LET id == CHOOSE i \in found : TRUE
               new == [exchange_id |-> id, submitter |-> user, link |-> link]
           IN  /\ \E conflict \in GetConflictingSubmission(new) :
                      \A c \in conflict : c.link # link
               /\ ~UpsertFails(new)
               /\ submissions' = AddOrUpdateSubmission(submissions, new)
        /\ UNCHANGED <<process, transaction, reply, in_flight, solver, now, exchanges, next_id, exchange_events, pc,
                       next_assignments_time, sleep_until, tick_vars, outbox, log>>

\* -------------------------------------------------------------- scheduler

\* Variant: no exchange is ever too late.
IsLate_Never(late_period, threshold) == FALSE

\* Variant: the threshold itself already counts as late.
IsLate_Inclusive(late_period, threshold) == late_period >= threshold

IsLate(late_period, threshold) == late_period > threshold

\* select!: the sleep has elapsed.  announce_exchange_submissions_open reads
\* the clock and asks for the starting exchanges; an error of the query ends
\* the function.
TickBegin ==
    /\ pc = "select"
    /\ now >= sleep_until
    /\ tick_now' = now
    /\ UNCHANGED <<started_in_tick, ending_exchanges>>
    /\ \E read \in DbOutcome :
        /\ \/ /\ read = "ok"
              /\ starting_exchanges' \in GetStartingExchanges(now)
           \/ /\ read = "err"
              /\ starting_exchanges' = <<>>
        /\ log' = [NoLog EXCEPT !.op = "get_starting", !.read = read]
    /\ pc' = IF starting_exchanges' = <<>> THEN "perform" ELSE "announce"
    \* the Notified future of this select! is dropped
    /\ shutdown_notified' = FALSE
    /\ UNCHANGED <<main_pc, transaction, reply, in_flight, solver, now, store, exchange_events, next_assignments_time, sleep_until,
                   outbox>>

\* update_exchange_state behind `if let Err(err) = .. { warn!(..) }`.
TryUpdateExchangeState(update, id, state) ==
    IF update = "ok" THEN UpdateExchangeState(exchanges, id, state) ELSE exchanges

\* `exchange.channel.say(..).await?` of the opening message: an error leaves
\* announce_exchange_submissions_open.
\* Variant: the send error is swallowed.
AnnounceAborts_Never(say) == FALSE

AnnounceAborts(say) == say = "err"

\* A failed state update is only logged; the loop goes on.
\* Variant: the update error is propagated with `?`.
UpdateErrorAborts_Propagates(update) == update = "err"

UpdateErrorAborts(update) == FALSE

\* One round of `for exchange in starting_exchanges`.
AnnounceExchange ==
    /\ pc = "announce"
    /\ LET exchange == Head(starting_exchanges)
           late_period == tick_now - exchange.submissions_start
       IN  IF IsLate(late_period, EXCHANGE_START_THRESHOLD)
           THEN \E update \in DbOutcome :
                /\ exchanges' = TryUpdateExchangeState(update, exchange.id, "MissedByBot")
                /\ starting_exchanges' = IF UpdateErrorAborts(update)
                                         THEN <<>> ELSE Tail(starting_exchanges)
                /\ log' = [NoLog EXCEPT !.op = "announce", !.id = exchange.id,
                                        !.late = late_period, !.update = update,
                                        !.retry = exchange.id \in opening_failed]
                /\ opening_failed' = opening_failed \ {exchange.id}
                /\ UNCHANGED <<opening_sent, started_in_tick>>
           ELSE \E say \in Outcome :
                /\ opening_sent' = IF say = "ok"
                                   THEN opening_sent \cup {exchange.id} ELSE opening_sent
                /\ opening_failed' = IF say = "err"
                                     THEN opening_failed \cup {exchange.id}
                                     ELSE opening_failed \ {exchange.id}
                /\ IF AnnounceAborts(say)
                   THEN /\ starting_exchanges' = <<>>
                        /\ log' = [NoLog EXCEPT !.op = "announce", !.id = exchange.id,
                                                !.late = late_period, !.say = say,
                                                !.retry = exchange.id \in opening_failed]
                        /\ UNCHANGED <<exchanges, started_in_tick>>
                   ELSE \E update \in DbOutcome :
                        /\ exchanges' = TryUpdateExchangeState(update, exchange.id,
                                                               "AcceptingSubmissions")
                        /\ started_in_tick' =
                             IF update = "ok" /\ exchange.id \in DOMAIN exchanges
                             THEN started_in_tick \cup {exchange.id}
                             ELSE started_in_tick
                        /\ starting_exchanges' = IF UpdateErrorAborts(update)
                                                 THEN <<>> ELSE Tail(starting_exchanges)
                        /\ log' = [NoLog EXCEPT !.op = "announce", !.id = exchange.id,
                                                !.late = late_period, !.say = say,
                                                !.update = update,
                                                !.retry = exchange.id \in opening_failed]
    /\ pc' = IF starting_exchanges' = <<>> THEN "perform" ELSE "announce"
    /\ UNCHANGED <<process, transaction, reply, in_flight, solver, now, next_id, submissions, exchange_events, next_assignments_time,
                   sleep_until, tick_now, ending_exchanges, delivered>>

\* perform_assignments reads the clock and asks for the ending exchanges.
PerformBegin ==
    /\ pc = "perform"
    /\ tick_now' = now
    /\ \E read \in DbOutcome :
        /\ \/ /\ read = "ok"
              /\ ending_exchanges' \in GetEndingExchanges(now)
           \/ /\ read = "err"
              /\ ending_exchanges' = <<>>
        /\ log' = [NoLog EXCEPT !.op = "get_ending", !.read = read]
    /\ pc' = IF ending_exchanges' = <<>> THEN "reschedule" ELSE "assign"
    /\ UNCHANGED <<process, transaction, reply, in_flight, solver, now, store, exchange_events, next_assignments_time, sleep_until,
                   starting_exchanges, started_in_tick, outbox>>

\* get_assignments has one entry for each submitter of the loaded submissions.
AssignmentUsers(loaded) == {s.submitter : s \in loaded}

\* The result of perform_assignments_for_exchange: `?` on the two loads; a
\* failed DM is only logged.
\* Variant: a failed DM is propagated with `?`.
AssignmentResult_DmFails(load, failed) ==
    IF load = "ok" /\ failed = {} THEN "ok" ELSE "err"

AssignmentResult(load, failed) == load

\* `exchange.channel.say(..).await?` of the closing message: an error leaves
\* perform_assignments.
CloseAborts(say) == say = "err"

\* One round of `for exchange in ending_exchanges` up to the result of
\* perform_assignments_for_exchange.
PerformAssignmentsForExchange ==
    /\ pc = "assign"
    /\ LET exchange == Head(ending_exchanges)
           late_period == tick_now - exchange.submissions_end
       IN  IF IsLate(late_period, EXCHANGE_END_THRESHOLD)
           THEN \E update \in DbOutcome :
                /\ exchanges' = TryUpdateExchangeState(update, exchange.id, "MissedByBot")
                /\ ending_exchanges' = Tail(ending_exchanges)
                /\ pc' = IF ending_exchanges' = <<>> THEN "reschedule" ELSE "assign"
                /\ log' = [NoLog EXCEPT !.op = "assign", !.id = exchange.id,
                                        !.late = late_period, !.update = update]
                /\ UNCHANGED delivered
           ELSE \E load \in DbOutcome :
                LET users == IF load = "ok"
                             THEN AssignmentUsers(GetSubmissionsForExchange(exchange.id))
                             ELSE {}
                IN  \E failed \in SUBSET users :
                    /\ delivered' = delivered \cup ({exchange.id} \X (users \ failed))
                    /\ IF AssignmentResult(load, failed) = "err"
                       THEN \E update \in DbOutcome :
                            /\ exchanges' = TryUpdateExchangeState(update, exchange.id,
                                                                   "AssignmentError")
                            \* continue
                            /\ ending_exchanges' = Tail(ending_exchanges)
                            /\ pc' = IF ending_exchanges' = <<>> THEN "reschedule" ELSE "assign"
                            /\ log' = [NoLog EXCEPT !.op = "assign", !.id = exchange.id,
                                                    !.late = late_period, !.load = load,
                                                    !.dm_to = users, !.dm_failed = failed,
                                                    !.update = update]
                       ELSE /\ pc' = "closing"
                            /\ log' = [NoLog EXCEPT !.op = "assign", !.id = exchange.id,
                                                    !.late = late_period, !.load = load,
                                                    !.dm_to = users, !.dm_failed = failed]
                            /\ UNCHANGED <<exchanges, ending_exchanges>>
    /\ UNCHANGED <<process, transaction, reply, in_flight, solver, now, next_id, submissions, exchange_events, next_assignments_time,
                   sleep_until, tick_now, starting_exchanges, started_in_tick,
                   opening_sent, opening_failed>>

\* The closing message and the update to AssignmentsSent.
CloseExchange ==
    /\ pc = "closing"
    /\ LET exchange == Head(ending_exchanges)
       IN  \E say \in Outcome :
           IF CloseAborts(say)
           THEN /\ ending_exchanges' = <<>>
                /\ log' = [log EXCEPT !.op = "close", !.say = say]
                /\ UNCHANGED exchanges
           ELSE \E update \in DbOutcome :
                /\ exchanges' = TryUpdateExchangeState(update, exchange.id,
                                                       "AssignmentsSent")
                /\ ending_exchanges' = Tail(ending_exchanges)
                /\ log' = [log EXCEPT !.op = "close", !.say = say, !.update = update]
    /\ pc' = IF ending_exchanges' = <<>> THEN "reschedule" ELSE "assign"
    /\ UNCHANGED <<process, transaction, reply, in_flight, solver, now, next_id, submissions, exchange_events, next_assignments_time,
                   sleep_until, tick_now, starting_exchanges, started_in_tick,
                   outbox>>

\* reschedule(): the closest date, or None when the read fails.
RescheduleResult(read) ==
    IF read = "ok" THEN GetClosestExchangeEndOrStartDate ELSE None

\* The end of the tick branch; the loop comes round to the next select!.
Reschedule ==
    /\ pc = "reschedule"
    /\ \E read \in DbOutcome :
        /\ next_assignments_time' = RescheduleResult(read)
        /\ log' = [NoLog EXCEPT !.op = "reschedule", !.read = read]
    /\ sleep_until' = SleepUntil(next_assignments_time', now)
    /\ pc' = "select"
    \* the locals of the tick go out of scope
    /\ tick_now' = 0
    /\ started_in_tick' = {}
    /\ UNCHANGED <<process, transaction, reply, in_flight, solver, now, store, exchange_events, starting_exchanges, ending_exchanges,
                   outbox>>

\* Variant: the event branch runs a tick.
HandleEvent_RunsTick ==
    /\ pc = "select"
    /\ exchange_events > 0
    /\ exchange_events' = exchange_events - 1
    /\ tick_now' = now
    /\ starting_exchanges' \in GetStartingExchanges(now)
    /\ log' = [NoLog EXCEPT !.op = "event", !.read = "ok"]
    /\ pc' = IF starting_exchanges' = <<>> THEN "perform" ELSE "announce"
    \* the Notified future of this select! is dropped
    /\ shutdown_notified' = FALSE
    /\ UNCHANGED <<main_pc, transaction, reply, in_flight, solver, now, store, next_assignments_time, sleep_until, ending_exchanges,
                   started_in_tick, outbox>>

\* select!: an ExchangesUpdated event is received.
HandleEvent ==
    /\ pc = "select"
    /\ exchange_events > 0
    /\ exchange_events' = exchange_events - 1
    /\ \E read \in DbOutcome :
        /\ next_assignments_time' = RescheduleResult(read)
        /\ log' = [NoLog EXCEPT !.op = "event", !.read = read]
    /\ sleep_until' = SleepUntil(next_assignments_time', now)
    /\ pc' = "select"
    \* the Notified future of this select! is dropped
    /\ shutdown_notified' = FALSE
    /\ UNCHANGED <<main_pc, transaction, reply, in_flight, solver, now, store, tick_vars, outbox>>

\* select!: shutdown_notify.notified() has completed; the loop breaks and the
\* thread of the scheduler ends.
ShutdownBreak ==
    /\ pc = "select"
    /\ shutdown_notified
    /\ pc' = "stopped"
    /\ shutdown_notified' = FALSE
    /\ log' = [NoLog EXCEPT !.op = "break"]
    /\ UNCHANGED <<main_pc, transaction, reply, in_flight, solver, now, store, exchange_events, next_assignments_time,
                   sleep_until, tick_vars, outbox>>

SchedulerStep ==
    \/ TickBegin
    \/ AnnounceExchange
    \/ PerformBegin
    \/ PerformAssignmentsForExchange
    \/ CloseExchange
    \/ Reschedule
    \/ HandleEvent

\* The scheduler and the administration of exchanges.
Next ==
    \/ AdvanceTime
    \/ \E channel \in Channels, slug \in Slugs, start \in now..(now + MaxStartDelay),
          duration \in 1..MaxDuration :
          CreateExchange(channel, slug, start, duration)
    \/ \E slug \in Slugs : DeleteExchange(slug)
    \/ SchedulerStep

Spec == Init /\ [][Next]_vars

\* main: ctrl_c is received; notify_waiters() wakes the Notified futures that
\* exist at that moment and stores no permit.
CtrlC ==
    /\ main_pc = "running"
    /\ main_pc' = "notified"
    /\ shutdown_notified' = (pc = "select")
    /\ UNCHANGED <<transaction, reply, in_flight, solver, now, store, exchange_events, pc,
                   next_assignments_time, sleep_until, tick_vars, outbox, log>>

\* main: the shards are shut down, then db_pool.close() is called.
ClosePool ==
    /\ main_pc = "notified"
    /\ main_pc' = "closing_pool"
    /\ UNCHANGED <<shutdown_notified, transaction, reply, in_flight, solver, now, store, exchange_events, pc,
                   next_assignments_time, sleep_until, tick_vars, outbox, log>>

\* main returns: the process ends with whatever the scheduler thread is at.
Exit ==
    /\ main_pc = "closing_pool"
    /\ main_pc' = "exited"
    /\ UNCHANGED <<shutdown_notified, transaction, reply, in_flight, solver, now, store, exchange_events, pc,
                   next_assignments_time, sleep_until, tick_vars, outbox, log>>

\* The scheduler, the administration of the first exchange and the shutdown
\* of the process.
NextShutdown ==
    \/ /\ main_pc # "exited"
       /\ AdvanceTime
    \/ /\ main_pc = "running"
       /\ next_id = 1
       /\ \E channel \in Channels, slug \in Slugs,
             start \in now..(now + MaxStartDelay), duration \in 1..MaxDuration :
             CreateExchange(channel, slug, start, duration)
    \/ /\ main_pc = "running"
       /\ \E slug \in Slugs : DeleteExchange(slug)
    \/ /\ main_pc # "exited"
       /\ SchedulerStep
    \/ /\ main_pc # "exited"
       /\ ShutdownBreak
    \/ CtrlC
    \/ ClosePool
    \/ Exit

SpecShutdown == Init /\ [][NextShutdown]_vars

\* create_exchange up to the commit: the transaction is begun and the row
\* inserted in it; `?` on an error drops (rolls back) the transaction.
BeginCreate(channel, slug, start, duration) ==
    /\ transaction = None
    /\ next_id <= MaxExchanges
    /\ exchange_events < MaxPendingEvents
    /\ GetOverlappingExchanges(channel, slug, start, start + duration) = {}
    /\ \E insert \in DbOutcome :
          transaction' = Some([op |-> "create", slug |-> slug, commit |-> "none",
                               row |-> [channel |-> channel, slug |-> slug,
                                        state |-> "NotStartedYet",
                                        submissions_start |-> start,
                                        submissions_end |-> start + duration],
                               pc |-> IF insert = "ok" THEN "commit" ELSE "return_err"])
    /\ UNCHANGED <<process, reply, in_flight, solver, now, store, exchange_events, pc, next_assignments_time,
                   sleep_until, tick_vars, outbox, log>>

\* delete_exchange up to the commit.
BeginDelete(slug) ==
    /\ transaction = None
    /\ exchange_events < MaxPendingEvents
    /\ \E delete \in DbOutcome :
          transaction' = Some([op |-> "delete", slug |-> slug, commit |-> "none",
                               row |-> <<>>,
                               pc |-> IF delete = "ok" THEN "commit" ELSE "return_err"])
    /\ UNCHANGED <<process, reply, in_flight, solver, now, store, exchange_events, pc, next_assignments_time,
                   sleep_until, tick_vars, outbox, log>>

\* Variant: the result of the commit is ignored.
AfterCommit_IgnoresError(commit) == "send"

\* `transaction.commit().await?`
AfterCommit(commit) == IF commit = "ok" THEN "send" ELSE "return_err"

\* The commit makes the insert or the delete visible, or fails and leaves the
\* store as it was.
CommitTransaction ==
    /\ transaction # None
    /\ LET tx == CHOOSE t \in transaction : TRUE
           kept == {id \in DOMAIN exchanges : exchanges[id].slug # tx.slug}
       IN  /\ tx.pc = "commit"
           /\ \E commit \in DbOutcome :
                 /\ transaction' = Some([tx EXCEPT !.commit = commit,
                                                   !.pc = AfterCommit(commit)])
                 /\ IF commit = "err"
                    THEN UNCHANGED <<exchanges, next_id, opening_failed>>
                    ELSE IF tx.op = "create"
                    THEN /\ exchanges' = (next_id :> tx.row) @@ exchanges
                         /\ next_id' = next_id + 1
                         /\ UNCHANGED opening_failed
                    ELSE /\ exchanges' = [id \in kept |-> exchanges[id]]
                         /\ opening_failed' = opening_failed \cap kept
                         /\ UNCHANGED next_id
    /\ UNCHANGED <<process, reply, in_flight, solver, now, submissions, exchange_events, pc,
                   next_assignments_time, sleep_until, tick_vars, opening_sent, delivered, log>>

\* `let _ = self.events.send(ExchangesUpdated)` and the return of Ok.
SendEvent ==
    /\ transaction # None
    /\ (CHOOSE t \in transaction : TRUE).pc = "send"
    /\ exchange_events' = exchange_events + 1
    /\ transaction' = None
    /\ UNCHANGED <<process, reply, in_flight, solver, now, store, pc, next_assignments_time, sleep_until,
                   tick_vars, outbox, log>>

\* The return of Err from create_exchange / delete_exchange.
ReturnErr ==
    /\ transaction # None
    /\ (CHOOSE t \in transaction : TRUE).pc = "return_err"
    /\ transaction' = None
    /\ UNCHANGED <<process, reply, in_flight, solver, now, store, exchange_events, pc, next_assignments_time,
                   sleep_until, tick_vars, outbox, log>>

\* The scheduler and the steps of create_exchange and delete_exchange for the
\* first exchange.
NextTransaction ==
    \/ AdvanceTime
    \/ /\ next_id = 1
       /\ \E channel \in Channels, slug \in Slugs,
             start \in now..(now + MaxStartDelay), duration \in 1..MaxDuration :
             BeginCreate(channel, slug, start, duration)
    \/ \E slug \in Slugs : BeginDelete(slug)
    \/ CommitTransaction
    \/ SendEvent
    \/ ReturnErr
    \/ SchedulerStep

SpecTransaction == Init /\ [][NextTransaction]_vars

\* The scheduler and the members' submissions to the first exchange.
NextSubmit ==
    \/ AdvanceTime
    \/ /\ next_id = 1
       /\ \E channel \in Channels, slug \in Slugs, start \in now..(now + MaxStartDelay),
             duration \in 1..MaxDuration :
             CreateExchange(channel, slug, start, duration)
    \/ \E slug \in Slugs : DeleteExchange(slug)
    \/ \E user \in Users, channel \in Channels, slug \in Slugs, link \in Links :
          Submit(user, channel, slug, link)
    \/ SchedulerStep

SpecSubmit == Init /\ [][NextSubmit]_vars

\* ----------------------------------------------------------------- claims

TerminalStates == {"AssignmentsSent", "MissedByBot", "AssignmentError"}

\* The rows that are in the table before and after a step.
Kept == DOMAIN exchanges \cap DOMAIN exchanges'

\* The steps of the two loops.
AnnounceFired == pc = "announce" /\ starting_exchanges' # starting_exchanges
AssignFired == pc = "assign" /\ (pc' = "closing" \/ ending_exchanges' # ending_exchanges)
CloseFired == pc = "closing" /\ pc' # "closing"
TickBeginFired == pc = "select" /\ pc' \in {"announce", "perform"}

\* C1: an exchange whose state is AssignmentsSent, MissedByBot or
\* AssignmentError keeps that state in every step (ticks, change events,
\* commands) for as long as its row exists.
C1_TerminalAbsorbing ==
    [][\A id \in Kept :
          exchanges[id].state \in TerminalStates
              => exchanges'[id].state = exchanges[id].state]_vars

\* C1 witness: a tick has asked for the starting exchanges at a time at or
\* after the start of an exchange that is in a terminal state.
C1_Witness ==
    /\ log.op = "get_starting"
    /\ log.read = "ok"
    /\ \E id \in DOMAIN exchanges :
          /\ exchanges[id].state \in TerminalStates
          /\ exchanges[id].submissions_start <= tick_now

\* C2: the state of an exchange changes only along NotStartedYet ->
\* AcceptingSubmissions | MissedByBot, in the announce loop of a tick whose time
\* is at or after submissions_start, and AcceptingSubmissions ->
\* AssignmentsSent | AssignmentError | MissedByBot, in the assignment loop of a
\* tick whose time is at or after submissions_end.
C2_OnlyScheduledTransitions ==
    [][\A id \in Kept :
          exchanges'[id].state # exchanges[id].state
              => \/ /\ exchanges[id].state = "NotStartedYet"
                    /\ exchanges'[id].state \in {"AcceptingSubmissions", "MissedByBot"}
                    /\ pc = "announce"
                    /\ exchanges[id].submissions_start <= tick_now
                    /\ tick_now <= now
                 \/ /\ exchanges[id].state = "AcceptingSubmissions"
                    /\ exchanges'[id].state \in
                         {"AssignmentsSent", "AssignmentError", "MissedByBot"}
                    /\ pc \in {"assign", "closing"}
                    /\ exchanges[id].submissions_end <= tick_now
                    /\ tick_now <= now]_vars

\* C2 witness: an exchange has gone all the way to AssignmentsSent.
C2_Witness ==
    /\ log.op = "close"
    /\ log.update = "ok"
    /\ log.id \in DOMAIN exchanges
    /\ exchanges[log.id].state = "AssignmentsSent"

\* C3: the announce loop marks an exchange MissedByBot, sending nothing, when
\* the tick is more than EXCHANGE_START_THRESHOLD after submissions_start, and
\* otherwise (lateness 0 up to the threshold included) sends the opening
\* message and makes it AcceptingSubmissions; the assignment loop decides in the
\* same way with submissions_end and EXCHANGE_END_THRESHOLD between
\* MissedByBot and running the assignment.  (What a failing send or update
\* does is the subject of C4, C6 and C7.)
C3_ThresholdGating ==
    [][/\ AnnounceFired =>
            LET exchange == Head(starting_exchanges)
                late == tick_now - exchange.submissions_start
            IN  /\ late >= 0
                /\ late > EXCHANGE_START_THRESHOLD =>
                     /\ log'.say = "none"
                     /\ opening_sent' = opening_sent
                     /\ (log'.update = "ok" /\ exchange.id \in Kept)
                            => exchanges'[exchange.id].state = "MissedByBot"
                /\ late <= EXCHANGE_START_THRESHOLD =>
                     /\ log'.say \in Outcome
                     /\ log'.say = "ok" => exchange.id \in opening_sent'
                     /\ (log'.say = "ok" /\ log'.update = "ok" /\ exchange.id \in Kept)
                            => exchanges'[exchange.id].state = "AcceptingSubmissions"
                     /\ exchange.id \in Kept
                            => exchanges'[exchange.id].state # "MissedByBot"
       /\ AssignFired =>
            LET exchange == Head(ending_exchanges)
                late == tick_now - exchange.submissions_end
            IN  /\ late >= 0
                /\ late > EXCHANGE_END_THRESHOLD =>
                     /\ log'.load = "none"
                     /\ pc' # "closing"
                     /\ (log'.update = "ok" /\ exchange.id \in Kept)
                            => exchanges'[exchange.id].state = "MissedByBot"
                /\ late <= EXCHANGE_END_THRESHOLD =>
                     /\ log'.load \in Outcome
                     /\ exchange.id \in Kept
                            => exchanges'[exchange.id].state # "MissedByBot"]_vars

\* C3 witness: one exchange was missed and another one, exactly
\* EXCHANGE_START_THRESHOLD late, has just been announced and opened.
C3_Witness ==
    /\ log.op = "announce"
    /\ log.late = EXCHANGE_START_THRESHOLD
    /\ log.say = "ok"
    /\ log.update = "ok"
    /\ log.id \in DOMAIN exchanges
    /\ exchanges[log.id].state = "AcceptingSubmissions"
    /\ \E id \in DOMAIN exchanges : exchanges[id].state = "MissedByBot"

\* C4: when loading the submissions or played games fails, or sending the
\* closing message fails, and the state update that follows does not itself
\* fail, the exchange becomes AssignmentError and the loop goes on with the
\* rest of the ending exchanges of the tick.
C4_ErrorBecomesAssignmentError ==
    [][((AssignFired /\ log'.load = "err") \/ (CloseFired /\ log'.say = "err"))
          => LET exchange == Head(ending_exchanges)
             IN  /\ (log'.update # "err" /\ exchange.id \in Kept)
                        => exchanges'[exchange.id].state = "AssignmentError"
                 /\ ending_exchanges' = Tail(ending_exchanges)]_vars

\* C5: when the DM to some submitter fails, a DM has still been attempted for
\* every submitter of the exchange, the exchange does not become
\* AssignmentError, the closing message is sent next, and with that message
\* delivered and the update done the exchange is AssignmentsSent.
C5_DmFailureDoesNotAbort ==
    [][/\ (AssignFired /\ log'.dm_failed # {}) =>
            LET exchange == Head(ending_exchanges)
            IN  /\ log'.dm_to = {s.submitter : s \in {r \in submissions :
                                                  r.exchange_id = exchange.id}}
                /\ pc' = "closing"
                /\ exchanges' = exchanges
       /\ (CloseFired /\ log.dm_failed # {}) =>
            LET exchange == Head(ending_exchanges)
            IN  /\ log'.say \in Outcome
                /\ log'.dm_failed = log.dm_failed
                /\ exchange.id \in Kept =>
                     /\ exchanges'[exchange.id].state # "AssignmentError"
                     /\ (log'.say = "ok" /\ log'.update = "ok")
                            => exchanges'[exchange.id].state = "AssignmentsSent"]_vars

\* C5 witness: of two submitters one got the DM and one did not, the closing
\* message was sent and the exchange is AssignmentsSent.
C5_Witness ==
    /\ log.op = "close"
    /\ log.say = "ok"
    /\ log.dm_failed # {}
    /\ log.dm_to \ log.dm_failed # {}
    /\ log.id \in DOMAIN exchanges
    /\ exchanges[log.id].state = "AssignmentsSent"

\* The starting exchanges at a time, whatever their order.
DueToStart(at) ==
    {id \in DOMAIN exchanges :
        exchanges[id].state = "NotStartedYet" /\ exchanges[id].submissions_start <= at}

\* A tick that could read the starting exchanges has every due one in its list.
SelectsDueExchanges ==
    (TickBeginFired /\ log'.read = "ok")
        => {starting_exchanges'[i].id : i \in DOMAIN starting_exchanges'} = DueToStart(now)

\* C6: when sending the opening message fails the exchange keeps its state
\* NotStartedYet, and every later tick that can read the starting exchanges
\* has it in its list again.
C6_FailedOpeningIsRetried ==
    [][/\ (AnnounceFired /\ log'.say = "err") =>
            /\ exchanges' = exchanges
            /\ opening_sent' = opening_sent
            /\ Head(starting_exchanges).id \in DOMAIN exchanges
                  => exchanges'[Head(starting_exchanges).id].state = "NotStartedYet"
       /\ SelectsDueExchanges]_vars

\* C6 witness: the opening message of an exchange whose previous opening
\* message failed has been sent, and the exchange is open.
C6_Witness ==
    /\ log.op = "announce"
    /\ log.retry
    /\ log.say = "ok"
    /\ log.id \in DOMAIN exchanges
    /\ exchanges[log.id].state = "AcceptingSubmissions"

\* C7: when the opening message is sent and the update to AcceptingSubmissions
\* fails, the exchange stays NotStartedYet and the loop goes on with the rest of
\* the starting exchanges; every exchange that is AcceptingSubmissions or
\* beyond has had its opening message delivered.
C7_AnnouncementAtLeastOnce ==
    /\ [](\A id \in DOMAIN exchanges :
             exchanges[id].state \in
                 {"AcceptingSubmissions", "AssignmentsSent", "AssignmentError"}
                 => id \in opening_sent)
    /\ [][(AnnounceFired /\ log'.say = "ok" /\ log'.update = "err") =>
             /\ exchanges' = exchanges
             /\ Head(starting_exchanges).id \in opening_sent'
             /\ starting_exchanges' = Tail(starting_exchanges)
             /\ pc' = IF Tail(starting_exchanges) = <<>> THEN "perform" ELSE "announce"]_vars

\* C7 witness: the message was sent, the update failed, the exchange is still
\* NotStartedYet and the loop is about to visit the next starting exchange.
C7_Witness ==
    /\ pc = "announce"
    /\ log.op = "announce"
    /\ log.say = "ok"
    /\ log.update = "err"
    /\ log.id \in DOMAIN exchanges
    /\ exchanges[log.id].state = "NotStartedYet"
    /\ log.id \in opening_sent

\* Within a tick the announce loop is over before the assignment loop begins.
StartingBeforeEnding ==
    /\ pc \in {"perform", "assign", "closing", "reschedule"}
          => starting_exchanges' = <<>> /\ pc' # "announce"
    /\ pc = "announce" => ending_exchanges = <<>>
    /\ \A id \in Kept :
          exchanges'[id].state # exchanges[id].state
              => IF exchanges[id].state = "NotStartedYet"
                 THEN pc = "announce"
                 ELSE pc \in {"assign", "closing"}

\* C8 as stated: starting exchanges are processed before ending exchanges, and
\* an exchange the tick moved to AcceptingSubmissions stays
\* AcceptingSubmissions for the rest of that tick.
C8_NotClosedInSameTick ==
    [][/\ StartingBeforeEnding
       /\ \A id \in started_in_tick \cap Kept :
             exchanges[id].state = "AcceptingSubmissions"
                 => exchanges'[id].state = "AcceptingSubmissions"]_vars

\* C8 amended: starting exchanges are processed before ending exchanges, and
\* an exchange the tick moved to AcceptingSubmissions is closed within that
\* tick only when its submissions_end is at or before the time read by
\* perform_assignments.
C8_ClosedInSameTickOnlyWhenDue ==
    [][/\ StartingBeforeEnding
       /\ \A id \in started_in_tick \cap Kept :
             (exchanges[id].state = "AcceptingSubmissions"
                 /\ exchanges'[id].state # "AcceptingSubmissions")
                 => /\ pc \in {"assign", "closing"}
                    /\ exchanges[id].submissions_end <= tick_now]_vars

\* C8 witness: an exchange opened by the running tick has been closed by it.
C8_Witness ==
    \E id \in started_in_tick \cap DOMAIN exchanges :
        /\ exchanges[id].state \in TerminalStates
        /\ log.id = id
        /\ log.op \in {"assign", "close"}

\* C9: the step that receives a change event changes next_assignments_time and
\* the sleep only: no exchange or submission row changes, no message or DM is
\* sent, no list of exchanges is loaded and the loop is back at the select!.
C9_EventOnlyReschedules ==
    [][exchange_events' < exchange_events
          => /\ UNCHANGED <<exchanges, next_id, submissions>>
             /\ UNCHANGED <<opening_sent, opening_failed>>
             /\ UNCHANGED <<starting_exchanges, ending_exchanges, started_in_tick>>
             /\ pc' = "select"
             /\ log'.op = "event"
             /\ log'.say = "none" /\ log'.update = "none" /\ log'.load = "none"
             /\ log'.dm_to = {}]_vars

\* C9 witness: a change event has been handled while an exchange was due to
\* start, and the exchange is untouched.
C9_Witness ==
    /\ log.op = "event"
    /\ pc = "select"
    /\ \E id \in DOMAIN exchanges :
          /\ exchanges[id].state = "NotStartedYet"
          /\ exchanges[id].submissions_start <= now
          /\ id \notin opening_sent

\* The dates the scheduler has to wake up for.
EventDates ==
    {exchanges[id].submissions_start :
        id \in {i \in DOMAIN exchanges : exchanges[i].state = "NotStartedYet"}}
    \cup
    {exchanges[id].submissions_end :
        id \in {i \in DOMAIN exchanges : exchanges[i].state = "AcceptingSubmissions"}}

\* C10: when the scheduler waits after a tick or a change event whose read
\* succeeded and no change event is waiting, next_assignments_time is the
\* earliest of the NotStartedYet starts and AcceptingSubmissions ends of the
\* stored exchanges (None when there are none), and the sleep does not go
\* beyond that date (beyond the default sleep when there is none).
C10_NextWakeupIsClosest ==
    (/\ pc = "select"
     /\ exchange_events = 0
     /\ log.op \in {"reschedule", "event"}
     /\ log.read = "ok")
        => IF EventDates = {}
           THEN /\ next_assignments_time = {}
                /\ sleep_until <= now + DEFAULT_SLEEP_DURATION
           ELSE \E d \in EventDates :
                /\ \A other \in EventDates : d <= other
                /\ next_assignments_time = {d}
                /\ sleep_until <= Max(now, d)

\* C10 witness: the scheduler waits for the end of an open exchange that is
\* earlier than the start of an exchange not yet started, after an event.
C10_Witness ==
    /\ pc = "select"
    /\ exchange_events = 0
    /\ log.op = "event"
    /\ log.read = "ok"
    /\ \E id \in DOMAIN exchanges :
          /\ exchanges[id].state = "AcceptingSubmissions"
          /\ next_assignments_time = {exchanges[id].submissions_end}
    /\ \E id \in DOMAIN exchanges : exchanges[id].state = "NotStartedYet"

\* -------------------------------------------------------------- shutdown

\* C11: once shutdown is requested, a scheduler that is waiting leaves the
\* select! only through the break, and a scheduler that is in a tick finishes
\* it and stops instead of coming back to the select!.
C11_ShutdownExitsLoop ==
    [][main_pc # "running" =>
          /\ (pc = "select" /\ pc' # "select") => pc' = "stopped"
          /\ pc \notin {"select", "stopped"} => pc' # "select"]_vars

\* A scheduler step that calls a repository.
DbCallFired ==
    \/ TickBeginFired
    \/ AnnounceFired /\ log'.update # "none"
    \/ pc = "perform" /\ pc' # "perform"
    \/ AssignFired
    \/ CloseFired /\ log'.update # "none"
    \/ pc = "reschedule" /\ pc' = "select"
    \/ exchange_events' < exchange_events

\* C12: the pool is closed only when the scheduler loop has exited, and no
\* scheduler step calls a repository while the pool is closed.
C12_PoolClosedAfterSchedulerExit ==
    /\ [](PoolClosed => pc = "stopped")
    /\ [][PoolClosed => ~DbCallFired]_vars

\* ----------------------------------------------------------- transactions

\* The rows of the store that carry the slug.
RowsWithSlug(slug) == {id \in DOMAIN exchanges : exchanges[id].slug = slug}

\* C13: an ExchangesUpdated event is sent only by a create or delete whose
\* commit succeeded and whose change is in the store already; a create or
\* delete that ends sends exactly one event when its commit succeeded and none
\* when the insert, the delete or the commit failed; the commit itself sends
\* nothing.
C13_EventAfterCommit ==
    [][/\ exchange_events' > exchange_events =>
            /\ transaction # None
            /\ \A tx \in transaction :
                  /\ tx.commit = "ok"
                  /\ tx.op = "create" => RowsWithSlug(tx.slug) # {}
                  /\ tx.op = "delete" => RowsWithSlug(tx.slug) = {}
            /\ exchanges' = exchanges
       /\ (transaction # None /\ transaction' = None) =>
            \A tx \in transaction :
                exchange_events' = exchange_events + (IF tx.commit = "ok" THEN 1 ELSE 0)
       /\ exchanges' # exchanges => exchange_events' = exchange_events]_vars

\* C13 witness: a create has committed its row and sent its event, which is
\* waiting for the scheduler.
C13_Witness ==
    /\ transaction = None
    /\ exchange_events = 1
    /\ \E id \in DOMAIN exchanges : exchanges[id].state = "NotStartedYet"

\* ----------------------------------------------------------------- solver

MaxCapacity == 2
MaxSubmitters == 3
MaxPlayedGames == 2
MaxGamesPerMember == 2

\* flow_network::Flow and Id are u16.
U16(x) == x % 65536

Min(S) == CHOOSE x \in S : \A y \in S : x <= y

\* Edge::opposite
Opposite(e) == <<e[2], e[1]>>

OutgoingEdges(g, vertex) == {e \in g.edges : e[1] = vertex}

IncomingEdges(g, vertex) == {e \in g.edges : e[2] = vertex}

\* FlowNetwork::flow / capacity: 0 for an edge that is not there.
FlowOf(g, e) == IF e \in g.edges THEN g.flows[e] ELSE 0

CapacityOf(g, e) == IF e \in g.edges THEN g.capacities[e] ELSE 0

AvailableCapacity(g, e) ==
    IF FlowOf(g, e) >= CapacityOf(g, e) THEN 0 ELSE CapacityOf(g, e) - FlowOf(g, e)

RECURSIVE Sum(_, _)
Sum(f, S) ==
    IF S = {} THEN 0
    ELSE LET x == CHOOSE y \in S : TRUE IN f[x] + Sum(f, S \ {x})

\* The sums of validate are sums of u16.
FlowSum(g, S) == U16(Sum(g.flows, S))

Vertices(g) == {e[1] : e \in g.edges} \cup {e[2] : e \in g.edges}

\* FlowNetwork::validate(Some(total)): TRUE for Ok.
Validate(g, total) ==
    /\ \A e \in g.edges : ~(FlowOf(g, e) > CapacityOf(g, e))
    /\ \A v \in Vertices(g) \ {g.source, g.sink} :
          FlowSum(g, IncomingEdges(g, v)) = FlowSum(g, OutgoingEdges(g, v))
    /\ FlowSum(g, OutgoingEdges(g, g.source)) = total
    /\ FlowSum(g, IncomingEdges(g, g.sink)) = total

\* construct_residual_graph: for every edge of the network add_edge(edge,
\* capacity - flow) when capacity > flow and add_edge(opposite, flow) when
\* flow > 0.  When the network holds an edge and its opposite, both may add the
\* same residual edge, and the add_edge of the edge visited last stays.
ResidualCapacity(n, later, r) ==
    LET forward == r \in n.edges /\ n.capacities[r] > n.flows[r]
        backward == Opposite(r) \in n.edges /\ n.flows[Opposite(r)] > 0
    IN  IF forward /\ (~backward \/ r \in later)
        THEN n.capacities[r] - n.flows[r]
        ELSE n.flows[Opposite(r)]

\* Variant: no opposite edges for the flow that is there.
ConstructResidualGraph_ForwardOnly(n, later) ==
    LET residual_edges == {e \in n.edges : n.capacities[e] > n.flows[e]}
    IN  [source |-> n.source, sink |-> n.sink, edges |-> residual_edges,
         capacities |-> [r \in residual_edges |-> n.capacities[r] - n.flows[r]],
         flows |-> [r \in residual_edges |-> 0]]

ConstructResidualGraph(n, later) ==
    LET residual_edges ==
            {e \in n.edges : n.capacities[e] > n.flows[e]}
            \cup {Opposite(e) : e \in {x \in n.edges : n.flows[x] > 0}}
    IN  [source |-> n.source, sink |-> n.sink, edges |-> residual_edges,
         capacities |-> [r \in residual_edges |-> ResidualCapacity(n, later, r)],
         flows |-> [r \in residual_edges |-> 0]]

\* vertex_levels of construct_level_graph: the worklist is a queue of edges, so
\* a vertex gets the length of the shortest path from the source.
RECURSIVE VertexLevels(_, _, _, _)
VertexLevels(g, levels, frontier, level) ==
    LET next == {e[2] : e \in {x \in g.edges : x[1] \in frontier}} \ DOMAIN levels
    IN  IF next = {} THEN levels
        ELSE VertexLevels(g, [v \in next |-> level + 1] @@ levels, next, level + 1)

\* construct_level_graph: an edge is added when its end has no level yet or the
\* level of its start + 1 is not above the level of its end.
ConstructLevelGraph(residual) ==
    LET source == residual.source
        levels == VertexLevels(residual, (source :> 0), {source}, 0)
        level_edges == {e \in residual.edges :
                           /\ e[1] \in DOMAIN levels
                           /\ levels[e[1]] + 1 <= levels[e[2]]}
    IN  [source |-> source, sink |-> residual.sink, edges |-> level_edges,
         capacities |-> [e \in level_edges |-> residual.capacities[e]],
         flows |-> [e \in level_edges |-> residual.flows[e]]]

\* The paths the search of find_blocking_flow can end with, from an edge on:
\* the search stops at the first edge that ends in the sink, and goes on from
\* any other edge along the outgoing edges with available capacity.  Which of
\* them it takes first is the iteration order of a HashSet.
RECURSIVE PathsFrom(_, _)
PathsFrom(g, e) ==
    IF e[2] = g.sink
    THEN {<<e>>}
    ELSE UNION {{<<e>> \o p : p \in PathsFrom(g, x)} :
                   x \in {o \in OutgoingEdges(g, e[2]) : AvailableCapacity(g, o) > 0}}

\* The outgoing edges of the source are pushed whatever their available
\* capacity.
SearchPaths(g) == UNION {PathsFrom(g, e) : e \in OutgoingEdges(g, g.source)}

PathEdges(edges) == {edges[i] : i \in DOMAIN edges}

PathFlow(g, edges) == Min({AvailableCapacity(g, e) : e \in PathEdges(edges)})

\* set_flow(edge, flow + path_flow) for the edges of the path.
PushFlow(g, edges, path_flow) ==
    [g EXCEPT !.flows = [e \in g.edges |->
                            IF e \in PathEdges(edges)
                            THEN U16(g.flows[e] + path_flow) ELSE g.flows[e]]]

\* solve, the flow adjustment: the flow of a level graph edge is added to the
\* edge of the network, or, when the network does not have that edge but has
\* its opposite, subtracted from the opposite.
AdjustedFlow(n, lg, e) ==
    LET added == IF FlowOf(lg, e) > 0 THEN FlowOf(lg, e) ELSE 0
        removed == IF Opposite(e) \notin n.edges /\ FlowOf(lg, Opposite(e)) > 0
                   THEN FlowOf(lg, Opposite(e)) ELSE 0
    IN  U16(U16(n.flows[e] + added) - removed)

\* The flow value: what leaves the source.
FlowValue(n) == FlowSum(n, OutgoingEdges(n, n.source))

\* solve, the head of the loop: the residual graph and the level graph are
\* built; find_blocking_flow begins.
SolveConstructGraphs ==
    /\ solver_pc = "loop"
    /\ level_graph' = ConstructLevelGraph(ConstructResidualGraph(network, visited_last))
    /\ reached_sink_once' = FALSE
    /\ solver_pc' = "find_blocking_flow"
    /\ UNCHANGED <<bot, played_games, games_per_member, locals, network, visited_last>>

\* Variant: solve does not look at the result of find_blocking_flow.
AfterBlockingFlow_NeverStops(reached_once) == "adjust"

\* The end of find_blocking_flow: solve breaks when the sink was never
\* reached.
AfterBlockingFlow(reached_once) == IF reached_once THEN "adjust" ELSE "done"

\* One round of the loop of find_blocking_flow.
FindBlockingFlow ==
    /\ solver_pc = "find_blocking_flow"
    /\ IF SearchPaths(level_graph) = {}
       THEN /\ solver_pc' = AfterBlockingFlow(reached_sink_once)
            /\ UNCHANGED <<level_graph, reached_sink_once>>
       ELSE \E found \in SearchPaths(level_graph) :
            LET path_flow == PathFlow(level_graph, found)
            IN  /\ reached_sink_once' = TRUE
                /\ IF path_flow = 0
                   THEN /\ solver_pc' = AfterBlockingFlow(TRUE)
                        /\ UNCHANGED level_graph
                   ELSE /\ level_graph' = PushFlow(level_graph, found, path_flow)
                        /\ UNCHANGED solver_pc
    /\ UNCHANGED <<bot, played_games, games_per_member, locals, network, visited_last>>

\* solve, `for (&edge, &flow) in level_graph.flows()`.
SolveAdjustFlows ==
    /\ solver_pc = "adjust"
    /\ network' = [network EXCEPT !.flows =
                      [e \in network.edges |-> AdjustedFlow(network, level_graph, e)]]
    /\ solver_pc' = "loop"
    /\ UNCHANGED <<bot, played_games, games_per_member, locals, visited_last, level_graph,
                   reached_sink_once>>

\* dinic::solve
Solve ==
    \/ SolveConstructGraphs
    \/ FindBlockingFlow
    \/ SolveAdjustFlows

\* Networks to solve: two routes from the source (0) to the sink (1), 0-2-3-1
\* and 0-5-3-1, a branch 2-4-1, and optionally the edge 3-2 opposite to 2-3;
\* every capacity from 0 to MaxCapacity, every flow 0.
RouteEdges == {<<0, 2>>, <<2, 3>>, <<3, 1>>, <<2, 4>>, <<4, 1>>, <<0, 5>>, <<5, 3>>}

NetworkOf(capacities) ==
    [source |-> 0, sink |-> 1, edges |-> DOMAIN capacities,
     capacities |-> capacities, flows |-> [e \in DOMAIN capacities |-> 0]]

TestNetworks ==
    {NetworkOf(c) : c \in [RouteEdges -> 0..MaxCapacity]}
    \cup {NetworkOf(c) : c \in [RouteEdges \cup {<<3, 2>>} -> 0..MaxCapacity]}

\* The iteration orders that matter: of every edge and its opposite one is
\* yielded after the other.
VisitOrders(n) ==
    {later \in SUBSET {e \in n.edges : Opposite(e) \in n.edges /\ Opposite(e) # e} :
        \A e \in n.edges :
            (Opposite(e) \in n.edges /\ Opposite(e) # e)
                => (e \in later) # (Opposite(e) \in later)}

InitSolver ==
    /\ BotInit
    /\ submissions = {}
    /\ played_games = {}
    /\ games_per_member = 1
    /\ network \in TestNetworks
    /\ visited_last \in VisitOrders(network)
    /\ level_graph = FlowNetworkEmpty(0, 1)
    /\ reached_sink_once = FALSE
    /\ EmptyLocals
    /\ solver_pc = "loop"

\* dinic::solve on the test networks.
SpecSolver == InitSolver /\ [][Solve]_vars

\* ------------------------------------------------------ assignment network

Submitters == 1..MaxSubmitters

\* IndexAllocator: source, sink, then two nodes for every submission.
SubmitterNode(user) == 2 * user

\* Variant: the submission gets the node of its submitter.
SubmissionNode_OfSubmitter(user) == 2 * user

SubmissionNode(user) == 2 * user + 1

\* get_played_games_for_exchange: the played games of the submitters.
GetPlayedGamesForExchange(id) ==
    {p \in played_games :
        \E s \in GetSubmissionsForExchange(id) : s.submitter = p.member}

\* Variant: every submitter gets an edge to every submission.
Build_AllPairs(per_member, subs, played) ==
    LET source_edges == {<<0, SubmitterNode(s.submitter)>> : s \in subs}
        sink_edges == {<<SubmissionNode(s.submitter), 1>> : s \in subs}
        review_edges == {<<SubmitterNode(p[1].submitter),
                           SubmissionNode(p[2].submitter)>> : p \in subs \X subs}
        edges == source_edges \cup sink_edges \cup review_edges
    IN  [source |-> 0, sink |-> 1, edges |-> edges,
         capacities |-> [e \in edges |->
                            IF e \in review_edges THEN 1 ELSE U16(per_member)],
         flows |-> [e \in edges |-> 0]]

\* AssignmentNetwork::build
Build(per_member, subs, played) ==
    LET source_edges == {<<0, SubmitterNode(s.submitter)>> : s \in subs}
        sink_edges == {<<SubmissionNode(s.submitter), 1>> : s \in subs}
        pairs == {p \in subs \X subs :
                     /\ p[1].submitter # p[2].submitter
                     /\ ~\E g \in played :
                           g.member = p[1].submitter /\ g.link = p[2].link}
        review_edges == {<<SubmitterNode(p[1].submitter),
                           SubmissionNode(p[2].submitter)>> : p \in pairs}
        edges == source_edges \cup sink_edges \cup review_edges
    IN  [source |-> 0, sink |-> 1, edges |-> edges,
         capacities |-> [e \in edges |->
                            IF e \in review_edges THEN 1 ELSE U16(per_member)],
         flows |-> [e \in edges |-> 0]]

\* Variant: submitters without an edge with flow are left out.
GetAssignments_NonEmptyOnly(n, subs) ==
    [user \in {s.submitter : s \in subs} \cap
              {(e[1]) \div 2 : e \in {x \in n.edges : x[1] # n.source /\ n.flows[x] > 0}} |->
        {s \in subs : FlowOf(n, <<SubmitterNode(user), SubmissionNode(s.submitter)>>) > 0}]

\* AssignmentNetwork::get_assignments: for every submitter the submissions at
\* the end of an outgoing edge with flow.
GetAssignments(n, subs) ==
    [user \in {s.submitter : s \in subs} |->
        {s \in subs : FlowOf(n, <<SubmitterNode(user), SubmissionNode(s.submitter)>>) > 0}]

\* The submissions of an exchange: one for each submitter of a set, each with
\* a link of its own.
SubmissionSets ==
    {{[exchange_id |-> 1, submitter |-> u, link |-> u] : u \in S} :
        S \in SUBSET Submitters}

PlayedGameSets ==
    {P \in SUBSET [member : Submitters, link : Submitters] :
        Cardinality(P) <= MaxPlayedGames}

InitAssignment ==
    /\ BotInit
    /\ submissions \in SubmissionSets
    /\ played_games \in PlayedGameSets
    /\ games_per_member \in 1..MaxGamesPerMember
    /\ network = Build(games_per_member, GetSubmissionsForExchange(1),
                       GetPlayedGamesForExchange(1))
    /\ visited_last = {}
    /\ level_graph = FlowNetworkEmpty(0, 1)
    /\ reached_sink_once = FALSE
    /\ EmptyLocals
    /\ solver_pc = "loop"

\* perform_assignments_for_exchange from build to the solved network.
SpecAssignment == InitAssignment /\ [][Solve]_vars

\* ------------------------------------------------------- assignment claims

\* The assignment read from the network for the submissions of the exchange.
Assignments == GetAssignments(network, submissions)

\* The users a submission is assigned to.
Reviewers(s) == {u \in DOMAIN Assignments : s \in Assignments[u]}

\* C14: in the assignment extracted after solve, (a) no user has their own
\* submission, (b) no user has a submission whose link is among that user's
\* played games, (c) no user has more than games_per_member submissions and
\* (d) no submission is assigned to more than games_per_member users.
C14_AssignmentValidity ==
    solver_pc = "done" =>
        /\ \A u \in DOMAIN Assignments : \A s \in Assignments[u] :
              /\ s.submitter # u
              /\ [member |-> u, link |-> s.link] \notin played_games
        /\ \A u \in DOMAIN Assignments : Cardinality(Assignments[u]) <= games_per_member
        /\ \A s \in submissions : Cardinality(Reviewers(s)) <= games_per_member

\* C14 witness: of three submitters one has played the entry of another and
\* is assigned the remaining entry only, while wanting two; another user is
\* assigned two entries.
C14_Witness ==
    /\ solver_pc = "done"
    /\ games_per_member = 2
    /\ Cardinality(submissions) = 3
    /\ \E u \in DOMAIN Assignments :
          /\ Cardinality(Assignments[u]) = 1
          /\ \E p \in played_games :
                p.member = u /\ p.link # u /\ \E s \in submissions : s.link = p.link
    /\ \E u \in DOMAIN Assignments : Cardinality(Assignments[u]) = 2

\* The vertices that the source reaches along edges with capacity left and,
\* backwards, along edges with flow.
RECURSIVE Augmentable(_, _)
Augmentable(n, reached) ==
    LET more == {e[2] : e \in {x \in n.edges :
                               x[1] \in reached /\ n.flows[x] < n.capacities[x]}}
                \cup {e[1] : e \in {x \in n.edges :
                                     x[2] \in reached /\ n.flows[x] > 0}}
    IN  IF more \subseteq reached THEN reached
        ELSE Augmentable(n, reached \cup more)

\* C15: after solve on a network made by AssignmentNetwork::build no path with
\* residual capacity leads from the source to the sink (the flow is maximum).
C15_AssignmentMaximality ==
    solver_pc = "done" => network.sink \notin Augmentable(network, {network.source})

\* C15 witness: solve has ended with three submitters and one game each; one
\* of them has played the entry of another, and still every one of them has
\* been assigned a game.
C15_Witness ==
    /\ solver_pc = "done"
    /\ games_per_member = 1
    /\ Cardinality(submissions) = 3
    /\ \E p \in played_games : p.member # p.link
    /\ \A u \in DOMAIN Assignments : Cardinality(Assignments[u]) = 1

\* ----------------------------------------------------------- solver claims

\* C16: after solve on a network that started with every flow 0, every edge
\* has 0 <= flow <= capacity, every vertex but the source and the sink has as
\* much flow coming in as going out, what leaves the source is what reaches the
\* sink, and validate(Some(total)) is Ok for that total.
C16_FlowFeasibility ==
    solver_pc = "done" =>
        /\ \A e \in network.edges :
              0 <= network.flows[e] /\ network.flows[e] <= network.capacities[e]
        /\ \A v \in Vertices(network) \ {network.source, network.sink} :
              Sum(network.flows, {e \in network.edges : e[2] = v})
                  = Sum(network.flows, {e \in network.edges : e[1] = v})
        /\ Sum(network.flows, {e \in network.edges : e[1] = network.source})
              = Sum(network.flows, {e \in network.edges : e[2] = network.sink})
        /\ Validate(network, FlowValue(network))

\* What may leave the source at most.
SourceCapacity(n) == Sum(n.capacities, {e \in n.edges : e[1] = n.source})

\* More than the level graph can ever hold.
RankBase(n) ==
    2 + 2 * Cardinality(n.edges) * (SourceCapacity(n) + MaxCapacity)

\* A number that every step of solve makes smaller: the flow value that is
\* still missing counts most, then the place in the round, then the capacity
\* left in the level graph.
SolveRank ==
    (SourceCapacity(network) - FlowValue(network)) * RankBase(network)
      + CASE solver_pc = "loop" -> RankBase(network) - 1
          [] solver_pc = "find_blocking_flow" ->
                1 + Sum([e \in level_graph.edges |-> AvailableCapacity(level_graph, e)],
                        level_graph.edges)
          [] OTHER -> 0

\* C17: every round of the loop of solve that adjusts the flows makes the
\* flow value greater, a round that finds the sink out of the level graph ends
\* solve, and solve with the searches of find_blocking_flow in it comes to its
\* end: every step makes a natural number smaller, and solve is always at one
\* of the three places that have a step to take, or at its end.
C17_SolveTerminates ==
    /\ [][solver_pc = "adjust" => FlowValue(network') > FlowValue(network)]_vars
    /\ [][(/\ solver_pc = "find_blocking_flow"
           /\ network.sink \notin {e[2] : e \in level_graph.edges})
              => solver_pc' = "done"]_vars
    /\ [][SolveRank' < SolveRank]_vars
    /\ [](SolveRank >= 0)
    /\ [](solver_pc \in {"loop", "find_blocking_flow", "adjust", "done"})

\* C17 witness: solve has ended after sending flow along both routes from the
\* source and along the branch.
C17_Witness ==
    /\ solver_pc = "done"
    /\ FlowValue(network) >= 2
    /\ network.flows[<<5, 3>>] > 0
    /\ network.flows[<<2, 4>>] > 0

\* ------------------------------------------------- the end of an exchange

\* send_user_assignments: the message lists the links of the assignments, or
\* says that nothing could be assigned.
\* Variant: the message only says whether there are assignments.
AssignmentsMessage_NoLinks(assignments) ==
    IF assignments = {}
    THEN [kind |-> "none", links |-> {}]
    ELSE [kind |-> "assignments", links |-> {}]

AssignmentsMessage(assignments) ==
    IF assignments = {}
    THEN [kind |-> "none", links |-> {}]
    ELSE [kind |-> "assignments", links |-> {s.link : s \in assignments}]

\* perform_assignments_for_exchange after solve: get_assignments and one DM
\* for each of its entries; a DM that fails is logged only.
SendUserAssignments ==
    /\ pc = "assign"
    /\ solver_pc = "done"
    /\ LET exchange == Head(ending_exchanges)
           assignments == GetAssignments(network, GetSubmissionsForExchange(exchange.id))
       IN  \E failed \in SUBSET DOMAIN assignments :
           /\ delivered' = delivered \cup ({exchange.id} \X (DOMAIN assignments \ failed))
           /\ log' = [NoLog EXCEPT !.op = "assign", !.id = exchange.id,
                                   !.late = tick_now - exchange.submissions_end,
                                   !.load = "ok", !.dm_to = DOMAIN assignments,
                                   !.dm_failed = failed,
                                   !.dms = [u \in DOMAIN assignments \ failed |->
                                               AssignmentsMessage(assignments[u])]]
    /\ pc' = "closing"
    /\ solver_pc' = "idle"
    /\ UNCHANGED <<process, transaction, reply, in_flight, now, store, exchange_events,
                   next_assignments_time, sleep_until, tick_vars, opening_sent,
                   opening_failed,
                   played_games, games_per_member, locals, network, visited_last,
                   level_graph, reached_sink_once>>

\* perform_assignments is closing exchange 1, which ended at the time of the
\* tick: the submissions and the played games are loaded and the network is
\* built.
InitExchangeEnd ==
    /\ now = 1
    /\ exchanges = (1 :> [channel |-> 1, slug |-> "a",
                          state |-> "AcceptingSubmissions",
                          submissions_start |-> 0, submissions_end |-> 1])
    /\ next_id = 2
    /\ exchange_events = 0
    /\ pc = "assign"
    /\ next_assignments_time = Some(1)
    /\ sleep_until = 1
    /\ tick_now = 1
    /\ starting_exchanges = <<>>
    /\ ending_exchanges = <<Row(1)>>
    /\ started_in_tick = {}
    /\ opening_sent = {1}
    /\ opening_failed = {}
    /\ delivered = {}
    /\ log = [NoLog EXCEPT !.op = "get_ending", !.read = "ok"]
    /\ main_pc = "running"
    /\ shutdown_notified = FALSE
    /\ transaction = None
    /\ reply = NoReply
    /\ in_flight = {}
    /\ submissions \in SubmissionSets
    /\ played_games \in PlayedGameSets
    /\ games_per_member \in 1..MaxGamesPerMember
    /\ network = Build(games_per_member, GetSubmissionsForExchange(1),
                       GetPlayedGamesForExchange(1))
    /\ visited_last = {}
    /\ level_graph = FlowNetworkEmpty(0, 1)
    /\ reached_sink_once = FALSE
    /\ EmptyLocals
    /\ solver_pc = "loop"

NextExchangeEnd ==
    \/ Solve
    \/ SendUserAssignments
    \/ CloseExchange

\* One exchange from the built network to the end of its round of
\* perform_assignments.
SpecExchangeEnd == InitExchangeEnd /\ [][NextExchangeEnd]_vars

\* The submissions of other users whose link the user has not played.
Eligible(u) ==
    {s \in submissions :
        /\ s.submitter # u
        /\ [member |-> u, link |-> s.link] \notin played_games}

\* The submitters to whom a submission may be given.
EligibleReviewers(s) == {u \in {t.submitter : t \in submissions} : s \in Eligible(u)}

\* Nobody has more eligible submissions, and no submission more eligible
\* reviewers, than games_per_member.
EverythingFits ==
    /\ \A s \in submissions : Cardinality(Eligible(s.submitter)) <= games_per_member
    /\ \A s \in submissions : Cardinality(EligibleReviewers(s)) <= games_per_member

\* C18: when every submitter has at most games_per_member eligible
\* submissions and every submission at most games_per_member eligible
\* reviewers, a DM goes to every submitter, every delivered DM lists exactly
\* the links of the user's eligible submissions, and the exchange is set to
\* AssignmentsSent once the closing message and the update have gone through.
C18_EndToEndAssignment ==
    /\ [](EverythingFits /\ log.op \in {"assign", "close"} =>
            /\ log.dm_to = {s.submitter : s \in submissions}
            /\ DOMAIN log.dms = log.dm_to \ log.dm_failed
            /\ \A u \in DOMAIN log.dms :
                  log.dms[u].links = {s.link : s \in Eligible(u)})
    /\ [][(/\ EverythingFits
           /\ pc = "closing"
           /\ log'.op = "close" /\ log'.say = "ok" /\ log'.update = "ok")
              => exchanges'[1].state = "AssignmentsSent"]_vars

\* C18 witness: three users and two games each; user 1 has played the entry
\* of user 2 and is sent the entry of user 3 only, users 2 and 3 are sent two
\* entries each, and the exchange is AssignmentsSent.
C18_Witness ==
    /\ log.op = "close"
    /\ exchanges[1].state = "AssignmentsSent"
    /\ games_per_member = 2
    /\ played_games = {[member |-> 1, link |-> 2]}
    /\ DOMAIN log.dms = {1, 2, 3}
    /\ log.dms[1].links = {3}
    /\ log.dms[2].links = {1, 3}
    /\ log.dms[3].links = {1, 2}

\* --------------------------------------------------- command gating claims

\* C19: a submission row is created, or has its link changed, only while the
\* exchange it belongs to is AcceptingSubmissions.
C19_SubmitOnlyWhileAccepting ==
    [][\A s \in submissions' \ submissions :
          /\ s.exchange_id \in DOMAIN exchanges
          /\ exchanges[s.exchange_id].state = "AcceptingSubmissions"]_vars

\* C20: /exchange delete removes an exchange only while it is NotStartedYet.
C20_DeleteOnlyNotStartedYet ==
    [][\A id \in DOMAIN exchanges \ DOMAIN exchanges' :
          exchanges[id].state = "NotStartedYet"]_vars

\* ----------------------------------------------------------- user commands

\* submit.rs, the conflict check: `if let Ok(Some(conflict))`, so a failed
\* read counts as no conflict.
ConflictsSeen(check, new) ==
    IF check = "ok" THEN GetConflictingSubmission(new) ELSE {None}

\* `if submission.link == conflict.link`: the command ends with the user
\* error "Someone else has already submitted this link".
ConflictRejects(conflict, new) == \E c \in conflict : c.link = new.link

\* /submit with a link that normalize_jam_entry_link accepts: lookup of the
\* exchange, conflict check, upsert, reply.
SubmitCommand(user, channel, slug, link) ==
    /\ \E read \in DbOutcome :
       LET found == GetOverlappingExchanges(channel, slug, now, now)
       IN  IF read = "err"
           THEN /\ reply' = Replied("internal_error", TRUE)
                /\ UNCHANGED submissions
           ELSE IF found = {}
           THEN /\ reply' = Replied("no_exchange", FALSE)
                /\ UNCHANGED submissions
           ELSE IF Cardinality(found) > 1
           THEN /\ reply' = Replied("internal_error", FALSE)
                /\ UNCHANGED submissions
           ELSE LET id == CHOOSE i \in found : TRUE
                    new == [exchange_id |-> id, submitter |-> user, link |-> link]
                IN  \E check \in DbOutcome : \E conflict \in ConflictsSeen(check, new) :
                    IF ConflictRejects(conflict, new)
                    THEN /\ reply' = Replied("link_taken", FALSE)
                         /\ UNCHANGED submissions
                    ELSE \E upsert \in DbOutcome :
                         IF upsert = "err" \/ UpsertFails(new)
                         THEN /\ reply' = Replied("internal_error",
                                                  check = "err" \/ upsert = "err")
                              /\ UNCHANGED submissions
                         ELSE /\ submissions' = AddOrUpdateSubmission(submissions, new)
                              /\ reply' = Replied(IF \E c \in conflict : c.submitter = user
                                                  THEN "updated" ELSE "submitted",
                                                  check = "err")
    /\ UNCHANGED <<process, transaction, in_flight, solver, now, exchanges, next_id,
                   exchange_events, pc, next_assignments_time, sleep_until,
                   tick_vars, outbox, log>>

\* get_running_exchange: fetch_optional yields any one of the matching rows.
GetRunningExchange(channel, date) ==
    LET running == {id \in DOMAIN exchanges :
                       /\ exchanges[id].channel = channel
                       /\ exchanges[id].submissions_start <= date
                       /\ exchanges[id].submissions_end >= date
                       /\ exchanges[id].state = "AcceptingSubmissions"}
    IN  IF running = {} THEN {None} ELSE {Some(id) : id \in running}

\* Variant: the DELETE does not look at the exchange.
Revoke_AnyState(table, exchange_id, submitter) ==
    {s \in table : ~(s.exchange_id = exchange_id /\ s.submitter = submitter)}

\* SubmissionRepository::revoke: the rows that stay.
Revoke(table, exchange_id, submitter) ==
    {s \in table :
        ~(/\ s.exchange_id = exchange_id
          /\ s.submitter = submitter
          /\ \E id \in DOMAIN exchanges :
                id = s.exchange_id /\ exchanges[id].state = "AcceptingSubmissions")}

\* /revoke up to the answer of get_running_exchange.
RevokeLookup(user, channel) ==
    /\ Cardinality(in_flight) < MaxInFlight
    /\ ~\E c \in in_flight : c.command = "revoke" /\ c.user = user
    /\ \E read \in DbOutcome :
       IF read = "err"
       THEN /\ reply' = Replied("internal_error", TRUE)
            /\ UNCHANGED in_flight
       ELSE \E running \in GetRunningExchange(channel, now) :
            IF running = None
            THEN /\ reply' = Replied("no_exchange", FALSE)
                 /\ UNCHANGED in_flight
            ELSE /\ in_flight' = in_flight \cup
                        {[command |-> "revoke", user |-> user,
                          exchange_id |-> CHOOSE id \in running : TRUE]}
                 /\ UNCHANGED reply
    /\ UNCHANGED <<process, transaction, solver, now, store, exchange_events, pc,
                   next_assignments_time, sleep_until, tick_vars, outbox, log>>

\* /revoke from the call of SubmissionRepository::revoke to the reply.
RevokeSubmission(user) ==
    \E c \in in_flight :
        /\ c.command = "revoke"
        /\ c.user = user
        /\ in_flight' = in_flight \ {c}
        /\ \E delete \in DbOutcome :
           IF delete = "err"
           THEN /\ reply' = Replied("internal_error", TRUE)
                /\ UNCHANGED submissions
           ELSE /\ submissions' = Revoke(submissions, c.exchange_id, user)
                /\ reply' = Replied(IF submissions' # submissions
                                    THEN "revoked" ELSE "not_found", FALSE)
        /\ UNCHANGED <<process, transaction, solver, now, exchanges, next_id,
                       exchange_events, pc, next_assignments_time, sleep_until,
                       tick_vars, outbox, log>>

\* The state after the first /exchange create: exchange 1 with slug "a" is
\* stored and its ExchangesUpdated event waits for the scheduler.
InitUser ==
    /\ now = 0
    /\ \E channel \in Channels, start \in 0..MaxStartDelay, duration \in 1..MaxDuration :
          exchanges = (1 :> [channel |-> channel, slug |-> "a",
                             state |-> "NotStartedYet",
                             submissions_start |-> start,
                             submissions_end |-> start + duration])
    /\ next_id = 2
    /\ exchange_events = 1
    /\ pc = "select"
    /\ next_assignments_time = Some(0)
    /\ sleep_until = 0
    /\ tick_now = 0
    /\ starting_exchanges = <<>>
    /\ ending_exchanges = <<>>
    /\ started_in_tick = {}
    /\ opening_sent = {}
    /\ opening_failed = {}
    /\ delivered = {}
    /\ log = NoLog
    /\ main_pc = "running"
    /\ shutdown_notified = FALSE
    /\ transaction = None
    /\ reply = NoReply
    /\ in_flight = {}
    /\ submissions = {}
    /\ SolverIdle

\* /submit as time passes.  The command reads the slug, the channel and the
\* dates of the exchanges, which the scheduler never changes, and the
\* scheduler does not write submissions: its steps are left out here.
NextUser ==
    \/ AdvanceTime
    \/ \E user \in Users, channel \in Channels, slug \in Slugs, link \in Links :
          SubmitCommand(user, channel, slug, link)

SpecUser == InitUser /\ [][NextUser]_vars

\* The scheduler, /revoke, and /submit by users who each submit the link of
\* their own number.
NextRevoke ==
    \/ AdvanceTime
    \/ \E user \in Users, channel \in Channels, slug \in Slugs, link \in Links \cap Users :
          /\ link = user
          /\ Submit(user, channel, slug, link)
    \/ \E user \in Users, channel \in Channels : RevokeLookup(user, channel)
    \/ \E user \in Users : RevokeSubmission(user)
    \/ SchedulerStep

SpecRevoke == InitUser /\ [][NextRevoke]_vars

\* ---------------------------------------------------- user command claims

\* The exchange that /submit with the slug resolves to, when it is only one.
Resolved(channel, slug) ==
    LET found == GetOverlappingExchanges(channel, slug, now, now)
    IN  IF Cardinality(found) = 1 THEN found ELSE {}

\* The link is held by another user's submission to the exchange.
HeldByOther(id, user, link) ==
    \E s \in submissions : s.exchange_id = id /\ s.link = link /\ s.submitter # user

\* C21: a /submit of a link that another user has submitted to the same
\* exchange ends, when no repository call fails, with the user error for a
\* taken link and leaves the submissions as they were, whether or not the
\* user has a submission of their own; and no two submissions of an exchange
\* share a link.
C21_LinkTakenByOtherUser ==
    /\ [][\A user \in Users, channel \in Channels, slug \in Slugs, link \in Links :
            (/\ ~reply'.failed
             /\ \E id \in Resolved(channel, slug) : HeldByOther(id, user, link)
             /\ SubmitCommand(user, channel, slug, link))
                => /\ reply'.result = "link_taken"
                   /\ submissions' = submissions]_vars
    /\ [](\A s, t \in submissions :
            s.exchange_id = t.exchange_id /\ s.link = t.link => s = t)

\* The rows of a user in an exchange.
RowsOf(table, id, user) == {s \in table : s.exchange_id = id /\ s.submitter = user}

\* C22: an exchange never holds two submissions of one user; a /submit by a
\* user who has a submission, with a different link that nobody holds, leaves
\* exactly one row for the user, with the new link, and the rows of the
\* others as they were.
C22_OneSubmissionPerUser ==
    /\ [](\A s, t \in submissions :
            s.exchange_id = t.exchange_id /\ s.submitter = t.submitter => s = t)
    /\ [][\A user \in Users, channel \in Channels, slug \in Slugs, link \in Links :
            (/\ ~reply'.failed
             /\ \E id \in Resolved(channel, slug) :
                   /\ RowsOf(submissions, id, user) # {}
                   /\ \A s \in submissions : s.exchange_id = id => s.link # link
             /\ SubmitCommand(user, channel, slug, link))
                => \E id \in Resolved(channel, slug) :
                      /\ RowsOf(submissions', id, user) =
                            {[exchange_id |-> id, submitter |-> user, link |-> link]}
                      /\ submissions' \ RowsOf(submissions', id, user) =
                            submissions \ RowsOf(submissions, id, user)
                      /\ reply'.result = "updated"]_vars

\* C22 witness: user 1 had link 1 and has submitted link 2; the reply was
\* "Updated" and the one row of the exchange is the user's, with link 2.
C22_Witness ==
    /\ reply = Replied("updated", FALSE)
    /\ submissions = {[exchange_id |-> 1, submitter |-> 1, link |-> 2]}

\* C23: a /submit of the link that the user's own submission to the exchange
\* already has, ends, when no repository call fails, with the "Updated"
\* reply.
C23_ResubmitIsUpdate ==
    [][\A user \in Users, channel \in Channels, slug \in Slugs, link \in Links :
          (/\ ~reply'.failed
           /\ \E id \in Resolved(channel, slug) :
                 [exchange_id |-> id, submitter |-> user, link |-> link] \in submissions
           /\ SubmitCommand(user, channel, slug, link))
              => reply'.result = "updated"]_vars

\* The exchange is stored and AcceptingSubmissions.
Accepting(id) ==
    id \in DOMAIN exchanges /\ exchanges[id].state = "AcceptingSubmissions"

\* C24: (a) a submission row disappears only while its exchange is
\* AcceptingSubmissions; (b) when no repository call fails, the revoke of a
\* user's submission to an exchange that is AcceptingSubmissions removes
\* exactly the row of that user in that exchange and answers "Revoked", and
\* for an exchange in another state, or without a row of the user, it answers
\* with a user error and removes nothing; (c) /revoke in a channel without an
\* exchange that is AcceptingSubmissions is a user error, too.
C24_RevokeOnlyWhileAccepting ==
    /\ [][\A s \in submissions \ submissions' : Accepting(s.exchange_id)]_vars
    /\ [][\A user \in Users : \A c \in in_flight :
            (/\ c.command = "revoke"
             /\ c.user = user
             /\ ~reply'.failed
             /\ RevokeSubmission(user))
                => IF Accepting(c.exchange_id) /\ RowsOf(submissions, c.exchange_id, user) # {}
                   THEN /\ reply'.result = "revoked"
                        /\ submissions' = submissions \ RowsOf(submissions, c.exchange_id, user)
                   ELSE /\ reply'.result = "not_found"
                        /\ submissions' = submissions]_vars
    /\ [][\A user \in Users, channel \in Channels :
            (/\ ~reply'.failed
             /\ ~\E id \in DOMAIN exchanges : exchanges[id].channel = channel /\ Accepting(id)
             /\ RevokeLookup(user, channel))
                => /\ reply'.result = "no_exchange"
                   /\ submissions' = submissions
                   /\ in_flight' = in_flight]_vars

\* C24 witness: user 1 asked to revoke while the exchange was running; the
\* exchange became AssignmentsSent before the DELETE, which found nothing to
\* delete: the answer is the user error and the row of user 1 is still there.
C24_Witness ==
    /\ reply = Replied("not_found", FALSE)
    /\ 1 \in DOMAIN exchanges
    /\ exchanges[1].state = "AssignmentsSent"
    /\ RowsOf(submissions, 1, 1) # {}

\* ------------------------------------------------- /exchange create, in steps

\* /exchange create up to the confirmation message: the overlap check has
\* found nothing and the admin is shown the "Confirm exchange creation"
\* buttons.
CreateCheck(channel, slug, start, duration) ==
    /\ Cardinality(in_flight) < MaxInFlight
    /\ \E read \in DbOutcome :
          /\ read = "ok"
          /\ GetOverlappingExchanges(channel, slug, start, start + duration) = {}
    /\ in_flight' = in_flight \cup
          {[command |-> "create", channel |-> channel, slug |-> slug,
            submissions_start |-> start, submissions_end |-> start + duration]}
    /\ UNCHANGED <<process, transaction, reply, solver, now, store, exchange_events, pc,
                   next_assignments_time, sleep_until, tick_vars, outbox, log>>

\* The admin presses "Create": create_exchange is called with the values of
\* the command, without another overlap check; it inserts the row and sends
\* ExchangesUpdated, or fails.
CreateConfirm ==
    /\ next_id <= MaxExchanges
    /\ exchange_events < MaxPendingEvents
    /\ \E c \in in_flight :
          /\ c.command = "create"
          /\ in_flight' = in_flight \ {c}
          /\ \E insert \in DbOutcome :
                IF insert = "ok"
                THEN /\ exchanges' = (next_id :> [channel |-> c.channel, slug |-> c.slug,
                                                  state |-> "NotStartedYet",
                                                  submissions_start |-> c.submissions_start,
                                                  submissions_end |-> c.submissions_end])
                                        @@ exchanges
                     /\ next_id' = next_id + 1
                     /\ exchange_events' = exchange_events + 1
                ELSE UNCHANGED <<exchanges, next_id, exchange_events>>
    /\ UNCHANGED <<process, transaction, reply, solver, now, submissions, pc,
                   next_assignments_time, sleep_until, tick_vars, outbox, log>>

\* The admin presses "Cancel", or the wait for the button ends without one.
CreateCancel ==
    /\ \E c \in in_flight :
          /\ c.command = "create"
          /\ in_flight' = in_flight \ {c}
    /\ UNCHANGED <<process, transaction, reply, solver, now, store, exchange_events, pc,
                   next_assignments_time, sleep_until, tick_vars, outbox, log>>

\* The scheduler and /exchange create commands that wait for their
\* confirmation side by side.
NextCreate ==
    \/ AdvanceTime
    \/ \E channel \in Channels, slug \in Slugs, start \in now..(now + MaxStartDelay),
          duration \in 1..MaxDuration :
          CreateCheck(channel, slug, start, duration)
    \/ CreateConfirm
    \/ CreateCancel
    \/ SchedulerStep

SpecCreate == Init /\ [][NextCreate]_vars

\* C25: no two stored exchanges of one channel have submission windows that
\* intersect (start1 < end2 and end1 > start2).
C25_NoOverlappingExchanges ==
    \A i, j \in DOMAIN exchanges :
        (/\ i # j
         /\ exchanges[i].channel = exchanges[j].channel)
            => ~(/\ exchanges[i].submissions_start < exchanges[j].submissions_end
                 /\ exchanges[i].submissions_end > exchanges[j].submissions_start)

\* The exchanges of a channel that are AcceptingSubmissions with the instant
\* in their window (the rows get_running_exchange selects from).
Running(channel, at) ==
    {id \in DOMAIN exchanges :
        /\ exchanges[id].channel = channel
        /\ exchanges[id].state = "AcceptingSubmissions"
        /\ exchanges[id].submissions_start <= at
        /\ at <= exchanges[id].submissions_end}

\* C26: for every channel and every instant at most one exchange is running.
C26_RunningExchangeUnique ==
    \A channel \in Channels, at \in 0..(MaxTime + MaxStartDelay + MaxDuration) :
        Cardinality(Running(channel, at)) <= 1

\* C27: solve on any network, also one that holds an edge together with its
\* opposite, ends with a feasible flow (on every edge 0 <= flow <= capacity,
\* conservation at every vertex but the source and the sink) of maximum
\* value (no augmenting path is left).
C27_SolverContract ==
    solver_pc = "done" =>
        /\ \A e \in network.edges :
              network.flows[e] >= 0 /\ network.capacities[e] >= network.flows[e]
        /\ \A v \in Vertices(network) \ {network.source, network.sink} :
              FlowSum(network, IncomingEdges(network, v))
                  = FlowSum(network, OutgoingEdges(network, v))
        /\ network.sink \notin Augmentable(network, {network.source})

\* ------------------------------------------------ assignment network claims

\* The ordered pairs of submissions (i, j) where j may be given to the
\* submitter of i.
EligiblePairs ==
    {p \in submissions \X submissions : p[2] \in Eligible(p[1].submitter)}

\* The network is as build has left it: solve has not begun.
JustBuilt == solver_pc = "loop" /\ level_graph.edges = {}

\* C28: the network of AssignmentNetwork::build has exactly one edge from the
\* source to the vertex of every submitter and one from the vertex of every
\* submission to the sink, each of capacity games_per_member, and an edge of
\* capacity 1 from u_i to v_j for exactly the eligible pairs: 2n edges plus
\* the number of eligible pairs, none without submissions; every flow is 0
\* when build returns.
C28_BuildEdges ==
    LET source_edges == {<<network.source, SubmitterNode(s.submitter)>> : s \in submissions}
        sink_edges == {<<SubmissionNode(s.submitter), network.sink>> : s \in submissions}
        pair_edges == {<<SubmitterNode(p[1].submitter), SubmissionNode(p[2].submitter)>> :
                          p \in EligiblePairs}
    IN  /\ network.edges = source_edges \cup sink_edges \cup pair_edges
        /\ Cardinality(network.edges) =
              2 * Cardinality(submissions) + Cardinality(EligiblePairs)
        /\ \A e \in source_edges \cup sink_edges :
              network.capacities[e] = games_per_member
        /\ \A e \in pair_edges : network.capacities[e] = 1
        /\ submissions = {} => network.edges = {}
        /\ JustBuilt => \A e \in network.edges : network.flows[e] = 0

\* C28 witness: build has returned for three submitters of whom user 1 has
\* played the entries of users 2 and 3: user 1 has no eligible pair, the
\* network has 6 + 4 edges and the edge from the submission of user 1 to the
\* sink is there.
C28_Witness ==
    /\ JustBuilt
    /\ Cardinality(submissions) = 3
    /\ played_games = {[member |-> 1, link |-> 2], [member |-> 1, link |-> 3]}
    /\ Cardinality(network.edges) = 10
    /\ <<SubmissionNode(1), network.sink>> \in network.edges
    /\ OutgoingEdges(network, SubmitterNode(1)) = {}

\* The submissions at the end of an edge with flow from the user's vertex.
Given(u) ==
    {s \in submissions :
        /\ <<SubmitterNode(u), SubmissionNode(s.submitter)>> \in network.edges
        /\ network.flows[<<SubmitterNode(u), SubmissionNode(s.submitter)>>] > 0}

\* C29: get_assignments has an entry for every submitter of the exchange, so
\* a DM goes to every one of them; the DM lists exactly the submissions at the
\* end of an edge with flow from the submitter's vertex, and a submitter
\* without such an edge is sent the "could not assign you any entries" DM.
C29_GetAssignments ==
    log.op \in {"assign", "close"} =>
        /\ log.dm_to = {s.submitter : s \in submissions}
        /\ DOMAIN log.dms = log.dm_to \ log.dm_failed
        /\ \A u \in DOMAIN log.dms :
              log.dms[u] = IF Given(u) = {}
                           THEN [kind |-> "none", links |-> {}]
                           ELSE [kind |-> "assignments",
                                 links |-> {s.link : s \in Given(u)}]

\* C29 witness: of three submitters user 1 has played both other entries and
\* has received the DM that nothing could be assigned, while user 2 has
\* received a DM with assignments.
C29_Witness ==
    /\ log.op = "assign"
    /\ Cardinality(submissions) = 3
    /\ 1 \in DOMAIN log.dms
    /\ log.dms[1].kind = "none"
    /\ 2 \in DOMAIN log.dms
    /\ log.dms[2].kind = "assignments"

\* ------------------------------------------- FlowNetwork with its indexes

\* FlowNetwork::empty with the two adjacency indexes, which the solver model
\* above replaces by their meaning (OutgoingEdges, IncomingEdges).
Empty(source, sink) ==
    [source |-> source, sink |-> sink, edges |-> {}, capacities |-> <<>>,
     flows |-> <<>>, outgoing_edges |-> <<>>, incoming_edges |-> <<>>]

\* HashMap::insert: the entry of the key is set, the others stay.
Insert(map, key, value) == (key :> value) @@ map

\* HashMap::remove
Remove(map, key) == [k \in DOMAIN map \ {key} |-> map[k]]

\* `index.entry(v).or_insert_with(HashSet::new)`, then the insert into the set.
IndexInsert(index, v, e) ==
    Insert(index, v, (IF v \in DOMAIN index THEN index[v] ELSE {}) \cup {e})

\* Variant: the entry of the vertex stays when its set has become empty.
IndexRemove_KeepsEmpty(index, v, e) == Insert(index, v, index[v] \ {e})

\* `index.get_mut(&v).unwrap().remove(&edge)`, and the entry is removed when
\* its set has become empty.
IndexRemove(index, v, e) ==
    IF index[v] \ {e} = {} THEN Remove(index, v) ELSE Insert(index, v, index[v] \ {e})

\* FlowNetwork::outgoing_edges / incoming_edges: the set of the index, or
\* the empty set.
Lookup(index, vertex) == IF vertex \in DOMAIN index THEN index[vertex] ELSE {}

\* FlowNetwork::add_edge
AddEdge(g, e, capacity, flow) ==
    [g EXCEPT !.edges = @ \cup {e},
              !.capacities = Insert(@, e, capacity),
              !.flows = Insert(@, e, flow),
              !.outgoing_edges = IndexInsert(@, e[1], e),
              !.incoming_edges = IndexInsert(@, e[2], e)]

\* FlowNetwork::remove_edge, for an edge whose vertices are in the indexes
\* (the unwrap panics otherwise).
RemoveEdge(g, e) ==
    [g EXCEPT !.edges = @ \ {e},
              !.capacities = Remove(@, e),
              !.flows = Remove(@, e),
              !.outgoing_edges = IndexRemove(@, e[1], e),
              !.incoming_edges = IndexRemove(@, e[2], e)]

\* FlowNetwork::set_flow, after its assert.
SetFlow(g, e, flow) == [g EXCEPT !.flows = Insert(@, e, flow)]

\* FlowNetwork::clear
Clear(g) ==
    [g EXCEPT !.edges = {}, !.capacities = <<>>, !.flows = <<>>,
              !.outgoing_edges = <<>>, !.incoming_edges = <<>>]

Ids == 0..MaxVertex

CallAddEdge ==
    /\ \E e \in Ids \X Ids, capacity \in 0..MaxFlow, flow \in 0..MaxFlow :
          /\ e \in network.edges \/ Cardinality(network.edges) < MaxEdges
          /\ network' = AddEdge(network, e, U16(capacity), U16(flow))
    /\ UNCHANGED <<bot, played_games, games_per_member, locals, visited_last, level_graph,
                   reached_sink_once, solver_pc>>

CallRemoveEdge ==
    /\ \E e \in network.edges : network' = RemoveEdge(network, e)
    /\ UNCHANGED <<bot, played_games, games_per_member, locals, visited_last, level_graph,
                   reached_sink_once, solver_pc>>

CallSetFlow ==
    /\ \E e \in Ids \X Ids, flow \in 0..MaxFlow :
          \* assert!(self.edges.contains(&edge))
          /\ e \in network.edges
          /\ network' = SetFlow(network, e, U16(flow))
    /\ UNCHANGED <<bot, played_games, games_per_member, locals, visited_last, level_graph,
                   reached_sink_once, solver_pc>>

CallClear ==
    /\ network' = Clear(network)
    /\ UNCHANGED <<bot, played_games, games_per_member, locals, visited_last, level_graph,
                   reached_sink_once, solver_pc>>

InitFlowNetwork ==
    /\ BotInit
    /\ submissions = {}
    /\ played_games = {}
    /\ games_per_member = 1
    /\ network = Empty(0, 1)
    /\ visited_last = {}
    /\ level_graph = FlowNetworkEmpty(0, 1)
    /\ reached_sink_once = FALSE
    /\ EmptyLocals
    /\ solver_pc = "idle"

NextFlowNetwork ==
    \/ CallAddEdge
    \/ CallRemoveEdge
    \/ CallSetFlow
    \/ CallClear

\* A FlowNetwork under any sequence of calls of its mutators.
SpecFlowNetwork == InitFlowNetwork /\ [][NextFlowNetwork]_vars

\* C30: after any sequence of add_edge, remove_edge of present edges,
\* set_flow and clear: outgoing_edges(v) is the set of the edges that start
\* at v and incoming_edges(v) of those that end at v; capacities and flows
\* are defined on the edge set; no index entry is empty; add_edge sets the
\* capacity and the flow of the edge, whether it is new or not, and leaves
\* the other edges as they were; clear leaves no edge and no index entry and
\* keeps source and sink.
C30_IndexConsistency ==
    /\ [](\A v \in Ids :
            /\ Lookup(network.outgoing_edges, v) = {e \in network.edges : e[1] = v}
            /\ Lookup(network.incoming_edges, v) = {e \in network.edges : e[2] = v})
    /\ [](DOMAIN network.capacities = network.edges /\ DOMAIN network.flows = network.edges)
    /\ [](/\ \A v \in DOMAIN network.outgoing_edges : network.outgoing_edges[v] # {}
          /\ \A v \in DOMAIN network.incoming_edges : network.incoming_edges[v] # {})
    /\ [](network.source = 0 /\ network.sink = 1)
    /\ [][\A e \in Ids \X Ids, capacity \in 0..MaxFlow, flow \in 0..MaxFlow :
            network' = AddEdge(network, e, capacity, flow)
                => /\ network'.edges = network.edges \cup {e}
                   /\ network'.capacities[e] = capacity
                   /\ network'.flows[e] = flow
                   /\ \A x \in network.edges \ {e} :
                         /\ network'.capacities[x] = network.capacities[x]
                         /\ network'.flows[x] = network.flows[x]]_vars
    /\ [][network' = Clear(network)
            => /\ network'.edges = {}
               /\ DOMAIN network'.outgoing_edges = {}
               /\ DOMAIN network'.incoming_edges = {}
               /\ DOMAIN network'.capacities = {}
               /\ DOMAIN network'.flows = {}]_vars

\* C30 witness: after calls of add_edge two edges end at vertex 1 and share
\* its entry of the incoming index; vertex 1 starts no edge and has no entry
\* in the outgoing index.
C30_Witness ==
    /\ network.edges = {<<0, 1>>, <<2, 1>>}
    /\ network.capacities[<<0, 1>>] = 1
    /\ network.flows[<<0, 1>>] = 1
    /\ DOMAIN network.outgoing_edges = {0, 2}
    /\ DOMAIN network.incoming_edges = {1}

\* ------------------------------------------------- the graphs of the solver

\* C31: the residual graph that solve builds from the network has, for every
\* edge (u,v) of the network with capacity c and flow f, the edge (u,v) with
\* capacity c - f exactly when c - f > 0 and the edge (v,u) with capacity f
\* exactly when f > 0; every flow of the residual graph is 0 and it has no
\* other edge.
C31_ResidualGraph ==
    solver_pc = "loop" =>
        LET residual == ConstructResidualGraph(network, visited_last)
        IN  /\ \A e \in network.edges :
                  LET c == network.capacities[e]
                      f == network.flows[e]
                  IN  /\ (/\ e \in residual.edges
                          /\ residual.capacities[e] = c - f) <=> (c - f > 0)
                      /\ (/\ Opposite(e) \in residual.edges
                          /\ residual.capacities[Opposite(e)] = f) <=> (f > 0)
            /\ \A r \in residual.edges : residual.flows[r] = 0
            /\ residual.edges \subseteq
                  {e \in network.edges : network.capacities[e] > network.flows[e]}
                  \cup {Opposite(e) : e \in {x \in network.edges : network.flows[x] > 0}}

\* --------------------------------------------- solve, one loop turn a step

MaxResidualEdges == 3

\* The orders in which a HashSet may yield its elements.
Orders(S) ==
    {order \in [1..Cardinality(S) -> S] :
        \A i, j \in 1..Cardinality(S) : i # j => order[i] # order[j]}

\* Variant: every edge that is taken from the worklist is added.
LevelAdds_Always(levels, end, level) == TRUE

\* construct_level_graph, `let add_edge = match vertex_levels.get(&end)`.
LevelAdds(levels, end, level) ==
    end \notin DOMAIN levels \/ level <= levels[end]

\* construct_level_graph up to its loop: the four clears, the outgoing edges
\* of the source are pushed to the back of the worklist, the source gets
\* level 0.
ConstructLevelGraphBegin ==
    /\ solver_pc = "construct_level_graph"
    /\ level_graph' = Clear(level_graph)
    /\ vertex_levels' = Insert(<<>>, residual_graph.source, 0)
    /\ visited' = {}
    /\ worklist' \in Orders(OutgoingEdges(residual_graph, residual_graph.source))
    /\ solver_pc' = "level_worklist"
    /\ UNCHANGED <<bot, played_games, games_per_member, network, visited_last,
                   reached_sink_once, residual_graph, path>>

\* construct_level_graph, one turn of `while let Some(edge) =
\* worklist.pop_front()`, or its end.
ConstructLevelGraphStep ==
    /\ solver_pc = "level_worklist"
    /\ IF worklist = <<>>
       THEN /\ solver_pc' = "find_blocking_flow_begin"
            /\ UNCHANGED <<level_graph, vertex_levels, visited, worklist>>
       ELSE LET edge == Head(worklist)
                start == edge[1]
                end == edge[2]
                level == U16(vertex_levels[start] + 1)
                add_edge == LevelAdds(vertex_levels, end, level)
                unvisited == OutgoingEdges(residual_graph, end) \ visited
            IN  /\ vertex_levels' =
                      IF add_edge THEN Insert(vertex_levels, end, level)
                      ELSE vertex_levels
                /\ level_graph' =
                      IF add_edge
                      THEN AddEdge(level_graph, edge, CapacityOf(residual_graph, edge),
                                   FlowOf(residual_graph, edge))
                      ELSE level_graph
                /\ visited' = visited \cup unvisited
                /\ \E order \in Orders(unvisited) :
                      worklist' = Tail(worklist) \o order
                /\ UNCHANGED solver_pc
    /\ UNCHANGED <<bot, played_games, games_per_member, network, visited_last,
                   reached_sink_once, residual_graph, path>>

\* The graphs that construct_level_graph is given here: any graph of at most
\* MaxResidualEdges edges on the vertices, source 0 and sink 1, with loops,
\* cycles and edges back to the source.
ResidualGraphs ==
    UNION {{NetworkOf(c) : c \in [E -> 0..MaxFlow]} :
              E \in {S \in SUBSET (Ids \X Ids) : Cardinality(S) <= MaxResidualEdges}}

InitLevelGraph ==
    /\ BotInit
    /\ submissions = {}
    /\ played_games = {}
    /\ games_per_member = 1
    /\ network = FlowNetworkEmpty(0, 1)
    /\ visited_last = {}
    /\ level_graph = Empty(0, 1)
    /\ reached_sink_once = FALSE
    /\ solver_pc = "construct_level_graph"
    /\ residual_graph \in ResidualGraphs
    /\ vertex_levels = <<>>
    /\ worklist = <<>>
    /\ visited = {}
    /\ path = <<>>

NextLevelGraph ==
    \/ ConstructLevelGraphBegin
    \/ ConstructLevelGraphStep

\* construct_level_graph on the graphs of ResidualGraphs.
SpecLevelGraph == InitLevelGraph /\ [][NextLevelGraph]_vars

\* The vertices that the source reaches along at most k edges.
RECURSIVE Within(_, _)
Within(g, k) ==
    IF k = 0 THEN {g.source}
    ELSE Within(g, k - 1)
         \cup {e[2] : e \in {x \in g.edges : x[1] \in Within(g, k - 1)}}

Reachable(g) == Within(g, Cardinality(g.edges))

Distance(g, v) == Min({k \in 0..Cardinality(g.edges) : v \in Within(g, k)})

\* C32: when construct_level_graph has returned, the vertices with a level
\* are the vertices that the source reaches in the residual graph, the level
\* is the least number of edges of a path from the source, and the level
\* graph holds exactly the residual edges that start at a reached vertex and
\* end one level higher, with the capacities and flows of the residual graph;
\* it is the graph that ConstructLevelGraph gives in one step.
C32_LevelGraph ==
    solver_pc = "find_blocking_flow_begin" =>
        /\ DOMAIN vertex_levels = Reachable(residual_graph)
        /\ \A v \in DOMAIN vertex_levels : vertex_levels[v] = Distance(residual_graph, v)
        /\ level_graph.edges =
              {e \in residual_graph.edges :
                  /\ e[1] \in Reachable(residual_graph)
                  /\ Distance(residual_graph, e[2]) = Distance(residual_graph, e[1]) + 1}
        /\ \A e \in level_graph.edges :
              /\ level_graph.capacities[e] = residual_graph.capacities[e]
              /\ level_graph.flows[e] = residual_graph.flows[e]
        /\ \A e \in level_graph.edges : vertex_levels[e[2]] > vertex_levels[e[1]]
        /\ LET one_step == ConstructLevelGraph(residual_graph)
           IN  /\ level_graph.edges = one_step.edges
               /\ level_graph.capacities = one_step.capacities
               /\ level_graph.flows = one_step.flows

\* C32 witness: the source reaches vertex 2, vertex 2 reaches the sink and
\* has an edge back to the source; the level graph is the path and the edge
\* back is not in it.
C32_Witness ==
    /\ solver_pc = "find_blocking_flow_begin"
    /\ residual_graph.edges = {<<0, 2>>, <<2, 1>>, <<2, 0>>}
    /\ level_graph.edges = {<<0, 2>>, <<2, 1>>}
    /\ vertex_levels = (0 :> 0) @@ (2 :> 1) @@ (1 :> 2)

\* solve, the head of its loop: construct_residual_graph.
ConstructResidualGraphStep ==
    /\ solver_pc = "construct_residual_graph"
    /\ residual_graph' = ConstructResidualGraph(network, visited_last)
    /\ solver_pc' = "construct_level_graph"
    /\ UNCHANGED <<bot, played_games, games_per_member, network, visited_last,
                   level_graph, reached_sink_once, vertex_levels, worklist, visited,
                   path>>

\* find_blocking_flow, `let mut reached_sink_once = false`.
FindBlockingFlowBegin ==
    /\ solver_pc = "find_blocking_flow_begin"
    /\ reached_sink_once' = FALSE
    /\ solver_pc' = "search_begin"
    /\ UNCHANGED <<bot, played_games, games_per_member, network, visited_last,
                   level_graph, locals>>

\* find_blocking_flow, the head of its loop: the three clears, and the
\* outgoing edges of the source are pushed to the front of the worklist.
SearchBegin ==
    /\ solver_pc = "search_begin"
    /\ worklist' \in Orders(OutgoingEdges(level_graph, level_graph.source))
    /\ visited' = {}
    /\ path' = <<>>
    /\ solver_pc' = "search"
    /\ UNCHANGED <<bot, played_games, games_per_member, network, visited_last,
                   level_graph, reached_sink_once, residual_graph, vertex_levels>>

\* find_blocking_flow, `while let Some(tail) = path.back()`: edges are taken
\* from the back of the path until one ends where the new edge starts.
RECURSIVE Retreat(_, _)
Retreat(edges, start) ==
    IF edges = <<>> \/ edges[Len(edges)][2] = start THEN edges
    ELSE Retreat(SubSeq(edges, 1, Len(edges) - 1), start)

\* Variant: the edge is pushed to the path as it is.
PathTo_NoRetreat(edges, edge) == Append(edges, edge)

\* find_blocking_flow, lines 152-160: the path after the edge taken from the
\* worklist has been pushed to it.
PathTo(edges, edge) == Append(Retreat(edges, edge[1]), edge)

\* Variant: solve goes on whatever find_blocking_flow returns.
AfterFindBlockingFlow_NoBreak(has_blocking_flow) == "adjust_flows"

\* solve, `if !has_blocking_flow { break; }`.
AfterFindBlockingFlow(has_blocking_flow) ==
    IF has_blocking_flow THEN "adjust_flows" ELSE "returned"

\* find_blocking_flow, one turn of `while let Some(edge) =
\* worklist.pop_front()`, or its end with the break that follows when the
\* sink was not reached.
SearchStep ==
    /\ solver_pc = "search"
    /\ IF worklist = <<>>
       THEN /\ solver_pc' = AfterFindBlockingFlow(reached_sink_once)
            /\ UNCHANGED <<worklist, visited, path, reached_sink_once>>
       ELSE LET edge == Head(worklist)
                extended == PathTo(path, edge)
                pushed == {e \in OutgoingEdges(level_graph, edge[2]) :
                              AvailableCapacity(level_graph, e) > 0 /\ e \notin visited}
            IN  IF edge[2] = level_graph.sink
                THEN /\ path' = extended
                     /\ worklist' = Tail(worklist)
                     /\ reached_sink_once' = TRUE
                     /\ solver_pc' = "augment"
                     /\ UNCHANGED visited
                ELSE /\ \E order \in Orders(pushed) :
                           worklist' = order \o Tail(worklist)
                     /\ visited' = visited \cup pushed
                     \* should_retreat
                     /\ path' = IF pushed = {}
                                THEN SubSeq(extended, 1, Len(extended) - 1)
                                ELSE extended
                     /\ UNCHANGED <<reached_sink_once, solver_pc>>
    /\ UNCHANGED <<bot, played_games, games_per_member, network, visited_last,
                   level_graph, residual_graph, vertex_levels>>

\* `for &edge in path.iter()`: set_flow(edge, flow + path_flow).
RECURSIVE SetFlows(_, _, _)
SetFlows(g, edges, path_flow) ==
    IF edges = <<>> THEN g
    ELSE SetFlows(SetFlow(g, Head(edges), U16(FlowOf(g, Head(edges)) + path_flow)),
                  Tail(edges), path_flow)

\* find_blocking_flow after the sink was reached: the flow of the path, the
\* break when it is 0, the flows of the edges of the path.
Augment ==
    /\ solver_pc = "augment"
    /\ LET path_flow == PathFlow(level_graph, path)
       IN  IF path_flow = 0
           THEN /\ solver_pc' = AfterFindBlockingFlow(reached_sink_once)
                /\ UNCHANGED level_graph
           ELSE /\ level_graph' = SetFlows(level_graph, path, path_flow)
                /\ solver_pc' = "search_begin"
    /\ UNCHANGED <<bot, played_games, games_per_member, network, visited_last,
                   reached_sink_once, locals>>

\* solve, `for (&edge, &flow) in level_graph.flows()`, then the loop again.
AdjustFlows ==
    /\ solver_pc = "adjust_flows"
    /\ network' = [network EXCEPT !.flows =
                      [e \in network.edges |-> AdjustedFlow(network, level_graph, e)]]
    /\ solver_pc' = "construct_residual_graph"
    /\ UNCHANGED <<bot, played_games, games_per_member, visited_last, level_graph,
                   reached_sink_once, locals>>

\* dinic::solve, step by step.
SolveSteps ==
    \/ ConstructResidualGraphStep
    \/ ConstructLevelGraphBegin
    \/ ConstructLevelGraphStep
    \/ FindBlockingFlowBegin
    \/ SearchBegin
    \/ SearchStep
    \/ Augment
    \/ AdjustFlows

\* solve is called with a network of the two routes and the branch.
InitSolveSteps ==
    /\ BotInit
    /\ submissions = {}
    /\ played_games = {}
    /\ games_per_member = 1
    /\ network \in {NetworkOf(c) : c \in [RouteEdges -> 0..MaxCapacity]}
    /\ visited_last = {}
    /\ level_graph = Empty(0, 1)
    /\ reached_sink_once = FALSE
    /\ solver_pc = "construct_residual_graph"
    /\ EmptyLocals

SpecSolveSteps == InitSolveSteps /\ [][SolveSteps]_vars

\* A path of the graph from its source to its sink, edge after edge.
SourceToSink(g, edges) ==
    /\ edges # <<>>
    /\ \A i \in DOMAIN edges : edges[i] \in g.edges
    /\ edges[1][1] = g.source
    /\ \A i \in 1..(Len(edges) - 1) : edges[i][2] = edges[i + 1][1]
    /\ edges[Len(edges)][2] = g.sink

\* C40: whenever the search of find_blocking_flow has reached the sink, its
\* path is a path of the level graph from the source to the sink, edge after
\* edge; the step that follows adds one positive amount to the flow of every
\* edge of the path, at most the available capacity of any of them, and
\* leaves the other flows; no edge of the level graph ever has more flow than
\* capacity.
C40_AugmentingPath ==
    /\ [](solver_pc = "augment" => SourceToSink(level_graph, path))
    /\ [][(solver_pc = "augment" /\ level_graph' # level_graph) =>
            \E amount \in 1..65535 :
               /\ \A e \in PathEdges(path) :
                     /\ amount <= AvailableCapacity(level_graph, e)
                     /\ level_graph'.flows[e] = level_graph.flows[e] + amount
               /\ \A e \in level_graph.edges \ PathEdges(path) :
                     level_graph'.flows[e] = level_graph.flows[e]
               /\ level_graph'.edges = level_graph.edges
               /\ level_graph'.capacities = level_graph.capacities]_vars
    /\ [](\A e \in level_graph.edges : level_graph.flows[e] <= level_graph.capacities[e])

\* C40 witness: the search went from 0->2 to 2->4 first, found that 4->1 has
\* no capacity and went back; it has reached the sink along 0->2, 2->3, 3->1.
C40_Witness ==
    /\ solver_pc = "augment"
    /\ path = <<<<0, 2>>, <<2, 3>>, <<3, 1>>>>
    /\ <<2, 4>> \in visited
    /\ network.capacities[<<4, 1>>] = 0
    /\ \A i \in DOMAIN worklist : worklist[i] # <<2, 4>>

\* Networks for solve that are empty or hold nothing but edges from a vertex
\* to itself, and the same with the route 0->2->1 or a part of it; every
\* flow 0.
LoopEdges == {<<v, v>> : v \in Ids}

SmallNetworks ==
    UNION {{NetworkOf(c) : c \in [E -> 0..MaxFlow]} :
              E \in SUBSET (LoopEdges \cup {<<0, 2>>, <<2, 1>>})}

InitDegenerate ==
    /\ BotInit
    /\ submissions = {}
    /\ played_games = {}
    /\ games_per_member = 1
    /\ network \in SmallNetworks
    /\ visited_last = {}
    /\ level_graph = Empty(0, 1)
    /\ reached_sink_once = FALSE
    /\ solver_pc = "construct_residual_graph"
    /\ EmptyLocals

\* solve runs on: it is a function without an await.
SpecDegenerate == InitDegenerate /\ [][SolveSteps]_vars /\ WF_vars(SolveSteps)

OnlyLoops(n) == n.edges \subseteq LoopEdges

\* C33: solve on a network without edges or with no edges but edges from a
\* vertex to itself (the source included), every flow 0, comes to its end;
\* on the way and at the end every flow is 0, and at the end
\* validate(Some(0)) is Ok.
C33_DegenerateNetworks ==
    /\ [](OnlyLoops(network) => \A e \in network.edges : network.flows[e] = 0)
    /\ [](OnlyLoops(network) /\ solver_pc = "returned" => Validate(network, 0))
    /\ (OnlyLoops(network) /\ solver_pc = "construct_residual_graph")
          ~> (solver_pc = "returned")

\* C33 witness: solve has returned on the network that holds an edge from
\* the source to itself and one from vertex 2 to itself, both with capacity.
C33_Witness ==
    /\ solver_pc = "returned"
    /\ network.edges = {<<0, 0>>, <<2, 2>>}
    /\ network.capacities[<<0, 0>>] = 1
    /\ network.capacities[<<2, 2>>] = 1
    /\ residual_graph.edges = {<<0, 0>>, <<2, 2>>}
    /\ level_graph.edges = {}

\* The vertices at the end of the edges from the source, and those at the
\* start of the edges to the sink.
AfterSource(n) == {e[2] : e \in {x \in n.edges : x[1] = n.source}}

BeforeSink(n) == {e[1] : e \in {x \in n.edges : x[2] = n.sink}}

\* C39: the network that AssignmentNetwork::build makes of submissions with
\* distinct submitters is layered, when it is built and while solve works on
\* it: source and sink differ, there is one submitter vertex and one
\* submission vertex for every submission, all of them different from each
\* other and from source and sink; every edge goes from the source to a
\* submitter vertex, from a submitter vertex to a submission vertex or from
\* a submission vertex to the sink; no edge goes from a vertex to itself and
\* no edge has its reverse in the network.
C39_LayeredNetwork ==
    LET submitter_nodes == AfterSource(network)
        submission_nodes == BeforeSink(network)
    IN  /\ network.source # network.sink
        /\ Cardinality(submitter_nodes) = Cardinality(submissions)
        /\ Cardinality(submission_nodes) = Cardinality(submissions)
        /\ submitter_nodes \cap submission_nodes = {}
        /\ {network.source, network.sink} \cap (submitter_nodes \cup submission_nodes) = {}
        /\ network.edges \subseteq
              ({network.source} \X submitter_nodes)
              \cup (submitter_nodes \X submission_nodes)
              \cup (submission_nodes \X {network.sink})
        /\ \A e \in network.edges : e[1] # e[2] /\ Opposite(e) \notin network.edges

\* C39 witness: three submitters, nobody has played anything: 3 + 3 + 6
\* edges on 8 vertices, and solve has sent flow along some of them.
C39_Witness ==
    /\ Cardinality(submissions) = 3
    /\ played_games = {}
    /\ Cardinality(network.edges) = 12
    /\ Cardinality(Vertices(network)) = 8
    /\ solver_pc = "loop"
    /\ FlowValue(network) > 0

\* ------------------------------------------------ the tick and the commands

\* C34: when the closing step of a tick moves an exchange to AssignmentsSent,
\* every submission stored for the exchange belongs to a submitter of the
\* submissions that perform_assignments_for_exchange had loaded (the
\* submitters it built the network of and sent the DMs to).
C34_NoSubmissionLeftOut ==
    [][\A id \in DOMAIN exchanges :
          (/\ pc = "closing"
           /\ exchanges[id].state = "AcceptingSubmissions"
           /\ id \in DOMAIN exchanges'
           /\ exchanges'[id].state = "AssignmentsSent")
             => \A s \in GetSubmissionsForExchange(id) : s.submitter \in log.dm_to]_vars

\* C35: no submitter of an exchange is sent the assignment message of that
\* exchange more than once: a step of perform_assignments that delivers the
\* message of an exchange to a user is the first one to do so.
C35_AssignmentSentOnce ==
    [][(pc = "assign" /\ log'.op = "assign")
          => \A user \in log'.dm_to \ log'.dm_failed :
                 <<log'.id, user>> \notin delivered]_vars

\* C36: a failed opening message of one starting exchange does not keep the
\* other exchanges returned by get_starting from being processed in the same
\* tick: after the failure the loop goes on with the remaining exchanges.
C36_OpeningFailureIsolated ==
    [][(pc = "announce" /\ log'.op = "announce" /\ log'.say = "err")
          => starting_exchanges' = Tail(starting_exchanges)]_vars

\* C38: the scheduler does not spin: when the closing message of a tick could
\* not be sent, so that the exchange is still AcceptingSubmissions after its
\* end, the reschedule that ends the tick makes the loop sleep for a strictly
\* positive time before the next tick.
C38_NoSpin ==
    [][(/\ pc = "reschedule" /\ pc' = "select"
        /\ log.op = "close" /\ log.say = "err"
        /\ log.id \in DOMAIN exchanges
        /\ exchanges[log.id].state = "AcceptingSubmissions"
        /\ exchanges[log.id].submissions_end <= tick_now)
          => sleep_until' > now]_vars

\* ------------------------------------------- the scheduler under fairness

\* The clock runs on until the deadlines of every exchange, thresholds
\* included, have passed: exchanges are created with their end that far
\* before the last instant of the clock.
CreateExchangeInTime ==
    \E channel \in Channels, slug \in Slugs, start \in now..(now + MaxStartDelay),
       duration \in 1..MaxDuration :
        /\ start + duration + EXCHANGE_END_THRESHOLD < MaxTime
        /\ CreateExchange(channel, slug, start, duration)

NextFair ==
    \/ AdvanceTime
    \/ CreateExchangeInTime
    \/ \E slug \in Slugs : DeleteExchange(slug)
    \/ SchedulerStep

\* Time advances, and the thread of the scheduler, which is never shut down,
\* keeps running: block_on drives the loop, and select! polls its branches in
\* a random order, so that a sleep that has elapsed is not passed over for
\* ever by the events that keep arriving.
SpecFair ==
    /\ Init
    /\ [][NextFair]_vars
    /\ WF_vars(AdvanceTime)
    /\ WF_vars(SchedulerStep)
    /\ WF_vars(TickBegin)

\* The last repository call of the scheduler succeeded.
RepositorySucceeds ==
    /\ log.read # "err"
    /\ log.update # "err"
    /\ log.load # "err"

\* C37: provided time advances, the scheduler is not shut down and the
\* repository calls succeed from some time on, every exchange that is not
\* deleted reaches AssignmentsSent, AssignmentError or MissedByBot, whether
\* or not any channel message is ever sent and whenever it was created.
C37_EventuallyTerminal ==
    (<>[]RepositorySucceeds)
        => \A id \in 1..MaxExchanges :
               (id \in DOMAIN exchanges)
                   ~> (id \notin DOMAIN exchanges
                         \/ exchanges[id].state \in TerminalStates)

\* C37 witness: an exchange has become MissedByBot after its opening message
\* failed to be sent.
C37_Witness ==
    \E id \in DOMAIN exchanges :
        /\ exchanges[id].state = "MissedByBot"
        /\ log.op = "announce"
        /\ log.id = id
        /\ log.retry
====
